---- MODULE Spec2Model ----
(***************************************************************************)
(* VoiceFlow ASR WebSocket server (src/server/main.py): the per-connection *)
(* message handler handle_client, the VAD scheduler task                   *)
(* vad_streaming_transcribe, the worker threads started by                 *)
(* asyncio.to_thread that call the model under model_lock, and the         *)
(* background LLM polish tasks.                                            *)
(*                                                                         *)
(* One asyncio event loop runs the handlers, the VAD tasks and the polish  *)
(* tasks: a step of the model is what one of them does between two awaits. *)
(* The workers are OS threads and interleave freely.                       *)
(***************************************************************************)
EXTENDS Integers, Sequences, FiniteSets, TLC

\* ------------------------------------------------------------------ bounds
MaxMsgs    == 3   \* start/stop messages handled, all sessions together
MaxChunks  == 1   \* binary frames kept in one session's audio buffer
MaxFrames  == 3   \* the same, where one connection is looked at alone
MaxTasks   == 2   \* VAD tasks created, all sessions together
MaxWorkers == 2   \* to_thread workers started, all sessions together
MaxMessageLen == 5   \* bytes of a binary message
MaxSent == 3      \* messages on a connection up to which worker ids are reused
MaxGlossary == 2  \* entries of a scene's glossary
MaxWords == 3     \* entries of a list of timed words
MaxBg      == 2   \* background polish tasks created, all sessions together
MaxPlugins == 2   \* plugins registered
MaxSilence == 3   \* cap of a scheduler's silence_frames counter
MaxDisconnects == 1  \* connections the clients close
MaxSlots   == 2   \* entries ever inserted into PluginLoader.loaded_plugins
MaxCalls   == 2   \* PluginLoader.process_text calls

\* ------------------------------------------------------- program constants
WindowSamples         == 1600  \* samples of the last-100-ms window
SilenceThresholdMilli == 10    \* silence_threshold 0.01, in thousandths
SilenceDurationMs     == 300
CheckIntervalMs       == 100
FramesNeeded          == SilenceDurationMs \div CheckIntervalMs
\* TimestampAwarePunctuator: the pause thresholds, in tenths of a second
LONG_PAUSE_THRESHOLD  == 15
MID_PAUSE_THRESHOLD   == 8
SHORT_PAUSE_THRESHOLD == 3

Sessions == {"s1", "s2"}
TaskIds   == 1..MaxTasks
WorkerIds == 1..MaxWorkers
BgIds     == 1..MaxBg

\* Texts the ASR model may return; Raise is the model call raising.
AsrTexts == {"", "a"}
\* The texts the model returns for the snapshots of a VAD task.
VadTexts == {"", "a", "b"}
Raise    == "<raise>"
Absent   == "<absent>"   \* a JSON field the message does not carry
NoScene  == "{}"         \* data.get("scene", {}) of a start without a scene
Unread   == "<unread>"   \* a variable a coroutine has not read yet

\* What a start message carries (enable_polish, use_llm_polish, use_timestamps
\* and the scene).
StartOptions ==
  { [enable_polish |-> FALSE, use_llm_polish |-> FALSE, use_timestamps |-> FALSE,
     scene |-> NoScene],
    [enable_polish |-> TRUE,  use_llm_polish |-> FALSE, use_timestamps |-> FALSE,
     scene |-> NoScene],
    [enable_polish |-> TRUE,  use_llm_polish |-> TRUE,  use_timestamps |-> FALSE,
     scene |-> NoScene],
    [enable_polish |-> FALSE, use_llm_polish |-> TRUE,  use_timestamps |-> TRUE,
     scene |-> NoScene] }

\* The start messages of a client that asks for the LLM polish and names the
\* scene of each take.
SceneOptions ==
  [enable_polish : {TRUE}, use_llm_polish : {TRUE}, use_timestamps : {FALSE},
   scene : {"coding", "medical"}]

\* A binary frame: 1600 float32 samples, all of one amplitude (in thousandths).
ChunkKinds == {"sil", "loud"}
AmplitudeMilli(c) == IF c = "loud" THEN 500 ELSE 0

\* What else a binary frame may leave in the buffer: 800 silent samples
\* ("short"), or two zero bytes, half a sample ("ragged"). A frame of at most
\* one byte is ignored, and decoding a frame may raise.
RaggedBytes == 2
Ignored     == "<ignored>"
FrameKinds  == ChunkKinds \cup {"short", "ragged", Ignored, Raise}

\* Plugins: "excl" and "quest" each append a mark of their own to the text,
\* "boom" raises.
PluginKinds == {"excl", "quest", "boom"}

\* Model identifiers: the one of the configuration, which main loads before
\* the server accepts connections, and another one. None is a start message
\* without model_id.
ModelIds       == {"m0", "m1"}
ConfigModelId  == "m0"
None           == "None"

\* What the LLM endpoint answers: a failure, a blank text, a polished text.
LlmFail      == "<fail>"
LlmResponses == {LlmFail, " ", "L"}

\* The punctuation libraries, the devices, and what initialize may be given.
Libraries == {"zhpr", "transformers"}
Devices   == {"auto", "cpu", "cuda"}
LibraryNames == Libraries \cup {"spacy"}
PunctuationConfigs ==
  [auto_punctuation : BOOLEAN, library : LibraryNames, device : {"auto", "tpu"}]

\* What a library does in one call of on_transcription.
LibraryOutcomes == {"unavailable", "import_error", "error", "ok"}

\* The texts on_transcription is given.
PunctuationTexts == {"", " ", "a"}

\* ChinesePunctuationPlugin.__init__
NewPunctuationPlugin ==
  [enabled |-> TRUE, library |-> "zhpr", device |-> "auto", initialized |-> FALSE,
   zhpr_adapter |-> FALSE, transformers_adapter |-> FALSE, model_manager |-> FALSE]

\* No call of on_transcription yet.
NoTranscription ==
  [text |-> "", outcome |-> [l \in Libraries |-> "ok"], primary |-> None,
   tried |-> <<>>, result |-> ""]

\* The bytes a binary message is made of.
Bytes == {0, 1, 2, 128, 255}
RECURSIVE SeqsUpTo(_, _)
SeqsUpTo(S, n) ==
  IF n = 0 THEN {<<>>}
  ELSE LET shorter == SeqsUpTo(S, n - 1)
       IN  shorter \cup {Append(q, x) : q \in {r \in shorter : Len(r) = n - 1}, x \in S}
Messages == SeqsUpTo(Bytes, MaxMessageLen)

\* JSON values of a start message's scene that are not what polish expects:
\* an array where a string is expected, a number where a string or an array is.
JsonList   == "<list>"
JsonNumber == "<number>"

\* The entries of a glossary: {"term": "a", "replacement": "b"}; the same with
\* a replacement that is no valid template for the pattern "a"; an
\* entry without term; and a JSON string in the place of an entry.
GlossaryEntries == {"a->b", "a->bad_template", "no_term", "string"}

\* The glossary of a scene: a JSON array of entries, or a JSON number.
Glossaries ==
  {[json |-> "number", entries |-> <<>>]}
    \cup {[json |-> "array", entries |-> e] : e \in SeqsUpTo(GlossaryEntries, MaxGlossary)}

\* The scene of a start message: the keys polish reads.
Scenes ==
  [type : {Absent, "coding", JsonList},
   polish_style : {Absent, "formal", JsonList},
   custom_prompt : {Absent, "p", JsonNumber},
   glossary : Glossaries]

\* The raw texts polish is given.
RawTexts == {"", " ", "a", "c"}

\* scene_polisher.polish has not been called.
NoPolish ==
  [st |-> "none", text |-> "", result |-> "",
   scene |-> [type |-> Absent, polish_style |-> Absent, custom_prompt |-> Absent,
              glossary |-> [json |-> "array", entries |-> <<>>]]]

\* The names of the active application, character by character.
AppNames ==
  { <<>>,
    <<"S", "l", "a", "c", "k">>,
    <<"W", "e", "C", "h", "a", "t", " ", "M", "a", "i", "l">>,
    <<"X", "c", "o", "d", "e">>,
    <<"S", "a", "f", "a", "r", "i">>,
    <<"G", "m", "a", "i", "l">> }

\* Its bundle identifiers: none, three of APP_SCENE_MAPPING's or like them, and
\* one of no table.
BundleIds ==
  {"", "com.apple.mail", "com.microsoft.VSCode", "com.microsoft.vscode",
   "org.mozilla.firefox"}

\* active_app of a scene: missing or empty (present FALSE), or a dict.
NoApp == [present |-> FALSE, bundle_id |-> "", name |-> <<>>]
ActiveApps ==
  {NoApp} \cup [present : {TRUE}, bundle_id : BundleIds, name : AppNames]

\* The scene, as far as _get_prompt reads it.
PromptScenes ==
  [custom_prompt : {Absent, "", "P"},
   type : {Absent, "coding", "medical", "formal"},
   active_app : ActiveApps]

\* _get_prompt has not been called.
NoPrompt ==
  [st |-> "none", prompt |-> "",
   scene |-> [custom_prompt |-> Absent, type |-> Absent, active_app |-> NoApp]]

\* The texts of timed words, as sequences of code points: none, a Chinese word
\* (U+4ECA U+5929) and an English one ("hi").
WordTexts == {<<>>, <<20170, 22825>>, <<104, 105>>}

\* The entries of the aligner's word list; the times are in tenths of a second.
TimedWords == [word : WordTexts, start : {3, 5, 6, 10, 11, 17, 18}, end : {0, 2}]

\* punctuate has not been called.
NoPunctuation == [st |-> "none", words |-> <<>>, parts |-> <<>>, result |-> <<>>]

VARIABLES
  hpc,                \* handler position: "recv", "await_vad", "await_asr", "done"
  recording,          \* handle_client.recording
  settings,           \* enable_polish, use_llm_polish, use_timestamps, session_scene
  audio_chunks,       \* handle_client.audio_chunks
  transcription_task, \* handle_client.transcription_task (0: None)
  asr_worker,         \* the worker the handler awaits under wait_for (0: none)
  conn,               \* "open", "client_closed" (the client has gone) or
                      \* "server_closed" (the handler has returned)
  tasks,              \* the VAD tasks and their local variables
  workers,            \* the to_thread workers
  model_lock,         \* the worker holding model_lock (0: free)
  bg,                 \* the background polish tasks
  plugins,            \* the registered plugins
  out,                \* the messages sent on each connection, in order
  stops,              \* stop messages a session has started handling
  msgs,               \* start/stop messages handled, all sessions
  models,             \* main.models: the instance loaded for a model id (0: none)
  current_model_id,   \* main.current_model_id
  session_model_id,   \* handle_client.session_model_id
  loaded_plugins,     \* PluginLoader.loaded_plugins, in insertion order
  processing,         \* the PluginLoader.process_text call in flight
  punctuation_plugin, \* the fields of a ChinesePunctuationPlugin
  on_transcription,   \* its last on_transcription call: input, libraries tried, result
  message,            \* a binary message of a recording session, byte by byte
  decoded,            \* what the binary branch of handle_client did with it
  polished,           \* a call of ScenePolisher.polish: text, scene and result
  prompted,           \* a call of LLMPolisher._get_prompt: scene and prompt
  punctuated          \* a call of TimestampAwarePunctuator.punctuate: the words,
                      \* result_parts before the final mark, and the result

\* The model registry and the sessions' model ids.
registryVars == <<models, current_model_id, session_model_id>>

\* The PluginLoader (src/server/plugin_loader.py).
loaderVars == <<loaded_plugins, processing>>

\* The ChinesePunctuationPlugin (src/Plugins/ChinesePunctuationPlugin).
punctuationVars == <<punctuation_plugin, on_transcription>>

\* The binary branch of handle_client, byte by byte.
decoderVars == <<message, decoded>>

\* The pure functions of the polishers, called on their own.
pureVars == <<polished, prompted, punctuated>>

\* What the connections' handlers and tasks, as modelled by serverVars, leave alone.
standaloneVars == <<loaderVars, punctuationVars, decoderVars, pureVars>>

\* The connections, their tasks and threads, and the plugins of main.
serverVars == <<hpc, recording, settings, audio_chunks, transcription_task, asr_worker,
                conn, tasks, workers, model_lock, bg, plugins, out, stops, msgs>>

vars == <<hpc, recording, settings, audio_chunks, transcription_task, asr_worker,
          conn, tasks, workers, model_lock, bg, plugins, out, stops, msgs,
          models, current_model_id, session_model_id, loaded_plugins, processing,
          punctuation_plugin, on_transcription, message, decoded, polished,
          prompted, punctuated>>

\* --------------------------------------------------------------- helpers
NoTask   == [st |-> "unborn", sess |-> "s1", silence_frames |-> 0,
             last_transcribed_length |-> 0, last_text |-> "",
             is_transcribing |-> FALSE, worker |-> 0, snap |-> 0, cancel |-> FALSE,
             model |-> 0]
NoWorker == [st |-> "unborn", kind |-> "vad", text |-> "", words |-> FALSE,
             abandoned |-> FALSE, model |-> 0, audio |-> <<>>]
NoBg     == [st |-> "unborn", sess |-> "s1", utt |-> 0, text |-> "", resp |-> "",
             scene |-> Unread]
NoCall   == [st |-> "idle", i |-> 0, text |-> "", size |-> 0, kind |-> "",
             stale |-> FALSE, n |-> 0]
NoOpts   == [enable_polish |-> FALSE, use_llm_polish |-> FALSE, use_timestamps |-> FALSE,
             scene |-> NoScene]

FreeIds(f, ids) == {i \in ids : f[i].st = "unborn"}
\* Ids are handed out in order.
NewId(f, ids) == CHOOSE i \in FreeIds(f, ids) : \A j \in FreeIds(f, ids) : i <= j

\* len(chunk): the bytes of a chunk in the buffer, four for each float32 sample.
ChunkBytes(c) ==
  IF c = "short" THEN 2 * WindowSamples
  ELSE IF c = "ragged" THEN RaggedBytes
  ELSE 4 * WindowSamples

\* len(b"".join(audio_chunks))
RECURSIVE ByteCount(_)
ByteCount(chunks) ==
  IF chunks = <<>> THEN 0 ELSE ChunkBytes(Head(chunks)) + ByteCount(Tail(chunks))

\* np.frombuffer(raw, dtype=np.float32) raises ValueError unless the length of
\* raw is a multiple of the size of a float32.
Decodable(chunks) == ByteCount(chunks) % 4 = 0

\* len(samples) of the snapshot b"".join(audio_chunks)
SampleCount(chunks) == ByteCount(chunks) \div 4

\* The square of a sample of chunk c, in millionths, when the chunk begins
\* offset bytes after a sample boundary of the buffer: the bytes of the
\* float32 0.5 read two bytes off its boundary are a denormal number, whose
\* square is 0.
SquareMicro(c, offset) ==
  IF offset = 0 THEN AmplitudeMilli(c) * AmplitudeMilli(c) ELSE 0

\* np.sum(samples ** 2) over the last bytes of the buffer, in millionths
RECURSIVE RecentEnergy(_, _)
RecentEnergy(chunks, bytes) ==
  IF bytes = 0 \/ chunks = <<>> THEN 0
  ELSE LET c     == chunks[Len(chunks)]
           front == SubSeq(chunks, 1, Len(chunks) - 1)
           k     == IF bytes < ChunkBytes(c) THEN bytes ELSE ChunkBytes(c)
       IN  k * (SquareMicro(c, ByteCount(front) % 4) \div 4) + RecentEnergy(front, bytes - k)

\* calculate_rms(samples[-1600:]) squared, in millionths: np.mean(samples ** 2)
calculate_rms_squared(chunks) == RecentEnergy(chunks, 4 * WindowSamples) \div WindowSamples

\* is_silence(samples[-1600:], silence_threshold): rms < threshold, compared
\* by the squares.
is_silence(chunks) ==
  calculate_rms_squared(chunks) < SilenceThresholdMilli * SilenceThresholdMilli

IsBlank(t) == t \in {"", " "}
Strip(t)   == IF IsBlank(t) THEN "" ELSE t

\* One plugin applied to a text: the new text, or Raise.
ApplyPlugin(p, t) ==
  IF p = "boom" THEN Raise
  ELSE IF p = "quest" THEN t \o "?"
  ELSE t \o "!"

\* Faulty variant of RunFrom: the first plugin that raises ends the pipeline.
RECURSIVE RunFromAborting(_, _, _)
RunFromAborting(ps, i, result) ==
  IF i > Len(ps) THEN result
  ELSE LET r == ApplyPlugin(ps[i], result)
       IN  IF r = Raise THEN result ELSE RunFromAborting(ps, i + 1, r)

\* The loop of run_plugins from plugin i on, with the text so far.
RECURSIVE RunFrom(_, _, _)
RunFrom(ps, i, result) ==
  IF i > Len(ps) THEN result
  ELSE LET r == ApplyPlugin(ps[i], result)
       IN  RunFrom(ps, i + 1, IF r = Raise THEN result ELSE r)

run_plugins(t) == RunFrom(plugins, 1, t)

\* ScenePolisher.polish: a blank text is returned as it is.
ScenePolish(t) == IF IsBlank(t) THEN t ELSE t \o "."

\* TimestampAwarePunctuator.punctuate on the aligned words of text t
Punctuate(t) == t \o ";"

\* The messages sent. type, text, original_text and polish_method are the JSON
\* fields; the others record where the message comes from: the VAD task of a
\* partial, the stop (utt) and the settings of a final, the stop and the LLM's
\* answer of a polish_update.
Msg(type, text, orig, method, utt, src, opts, resp) ==
  [type |-> type, text |-> text, original_text |-> orig, polish_method |-> method,
   utt |-> utt, src |-> src, opts |-> opts, resp |-> resp]

PartialMsg(text, t) == Msg("partial", text, Absent, Absent, 0, t, NoOpts, "")
FinalMsg(text, orig, method, utt, opts) ==
  Msg("final", text, orig, method, utt, 0, opts, "")
PolishUpdateMsg(text, utt, resp) ==
  Msg("polish_update", text, Absent, Absent, utt, 0, NoOpts, resp)

\* ------------------------------------------------------ the model registry
\* MLXQwen3ASR(model_id=...): a new instance, numbered after those there are.
RECURSIVE MaxOf(_)
MaxOf(S) == IF S = {} THEN 0
            ELSE LET x == CHOOSE y \in S : TRUE
                     m == MaxOf(S \ {x})
                 IN  IF x > m THEN x ELSE m

NewInstance(reg) == 1 + MaxOf({reg[id] : id \in ModelIds})

\* load_model(model_id) when the constructor does not raise: the registry and
\* current_model_id after the call.
load_model(reg, cur, id) ==
  LET m == IF id = None THEN ConfigModelId ELSE id
  IN  IF reg[m] # 0
      THEN [models |-> reg, current_model_id |-> m]
      ELSE [models |-> [reg EXCEPT ![m] = NewInstance(reg)], current_model_id |-> m]

\* The identifier get_model(model_id) looks up.
ResolvedId(cur, id) == IF id = None THEN cur ELSE id

\* Faulty variant of get_model: the "not in models" test is missing and every call
\* constructs an instance.
get_model_reloading(reg, cur, id) ==
  LET m == ResolvedId(cur, id)
  IN  [models |-> [reg EXCEPT ![m] = NewInstance(reg)], current_model_id |-> m]

\* get_model(model_id) when no constructor raises: the registry and
\* current_model_id after the call.
get_model(reg, cur, id) ==
  LET m == ResolvedId(cur, id)
  IN  IF reg[m] = 0 THEN load_model(reg, cur, m)
      ELSE [models |-> reg, current_model_id |-> cur]

\* The instance get_model(model_id) returns.
ModelOf(reg, cur, id) == get_model(reg, cur, id).models[ResolvedId(cur, id)]

\* websocket.send: the message is written when the connection is open; on a
\* closed connection send raises ConnectionClosed and nothing is written.
Sent(s, m) == IF conn[s] = "open" THEN [out EXCEPT ![s] = Append(@, m)] ELSE out

\* Where the handler is after a send: at the next message, or ended by the
\* ConnectionClosed that send raised (the top-level except).
AfterSend(s) == IF conn[s] = "open" THEN "recv" ELSE "done"

Init ==
  /\ hpc = [s \in Sessions |-> "recv"]
  /\ recording = [s \in Sessions |-> FALSE]
  /\ settings = [s \in Sessions |-> NoOpts]
  /\ audio_chunks = [s \in Sessions |-> <<>>]
  /\ transcription_task = [s \in Sessions |-> 0]
  /\ asr_worker = [s \in Sessions |-> 0]
  /\ conn = [s \in Sessions |-> "open"]
  /\ tasks = [t \in TaskIds |-> NoTask]
  /\ workers = [w \in WorkerIds |-> NoWorker]
  /\ model_lock = 0
  /\ bg = [b \in BgIds |-> NoBg]
  /\ plugins = <<>>
  /\ out = [s \in Sessions |-> <<>>]
  /\ stops = [s \in Sessions |-> 0]
  /\ msgs = 0
  /\ models = [id \in ModelIds |-> IF id = ConfigModelId THEN 1 ELSE 0]
  /\ current_model_id = ConfigModelId
  /\ session_model_id = [s \in Sessions |-> None]
  /\ loaded_plugins = <<>>
  /\ processing = NoCall
  /\ punctuation_plugin = NewPunctuationPlugin
  /\ on_transcription = NoTranscription
  /\ message = <<>>
  /\ decoded = [outcome |-> "none", bytes |-> <<>>]
  /\ polished = NoPolish
  /\ prompted = NoPrompt
  /\ punctuated = NoPunctuation

\* ------------------------------------------------------------ the handler
\* Faulty variant of EndedByException: the exception leaves handle_client and takes
\* the server process, and with it every handler, down.
EndedByExceptionAll(s) == Sessions

\* The handlers an exception ends that was raised while the handler of s
\* handled a message and was caught nowhere below the top-level
\* "except Exception" of handle_client.
EndedByException(s) == {s}

HpcAfterException(s) ==
  [x \in Sessions |-> IF x \in EndedByException(s) THEN "done" ELSE hpc[x]]

\* The server closes the connection of a handler that has returned.
ConnAfterException(s) ==
  [x \in Sessions |-> IF x \in EndedByException(s) /\ conn[x] = "open"
                      THEN "server_closed" ELSE conn[x]]

\* register_plugin
RegisterPlugin(p) ==
  /\ Len(plugins) < MaxPlugins
  /\ plugins' = Append(plugins, p)
  /\ UNCHANGED <<hpc, recording, settings, audio_chunks, transcription_task,
                 asr_worker, conn, tasks, workers, model_lock, bg, out, stops, msgs>>
  /\ UNCHANGED <<registryVars, standaloneVars>>

\* Faulty variant of OnEventLoop: the model call is made in the coroutine itself
\* and holds the event loop from the wait for model_lock until it returns.
OnEventLoopInline(w) == workers[w].st \in {"wait", "run", "align"}

\* await asyncio.to_thread(transcribe_with_lock): the call of worker w, its wait
\* for model_lock included, runs in a thread of the executor. Only the coroutine
\* that awaits it is suspended; the event loop is not occupied by it.
OnEventLoop(w) == FALSE

\* The event loop can run the next step of a handler or of a VAD task.
EventLoopFree == \A w \in WorkerIds : ~OnEventLoop(w)

\* A "start" message with model_id mid (None: no model_id): the settings are
\* taken, the named model is loaded when it is not yet (loads is whether its
\* constructor succeeds: a failure ends the handler), the buffer is cleared
\* and a new VAD task is created with the model get_model returns;
\* transcription_task is overwritten.
HandleStart(s, o, mid, loads) ==
  /\ hpc[s] = "recv" /\ conn[s] = "open"
  /\ EventLoopFree
  /\ msgs < MaxMsgs
  /\ msgs' = msgs + 1
  /\ settings' = [settings EXCEPT ![s] = o]
  /\ session_model_id' = [session_model_id EXCEPT ![s] = mid]
  /\ LET must_load == mid # None /\ models[mid] = 0
         r1 == IF mid # None THEN get_model(models, current_model_id, mid)
               ELSE [models |-> models, current_model_id |-> current_model_id]
         r2 == get_model(r1.models, r1.current_model_id, mid)
     IN  /\ loads \/ must_load
         /\ IF must_load /\ ~loads
            THEN /\ hpc' = HpcAfterException(s)
                 /\ conn' = ConnAfterException(s)
                 /\ UNCHANGED <<tasks, transcription_task, audio_chunks, recording,
                                models, current_model_id>>
            ELSE /\ FreeIds(tasks, TaskIds) # {}
                 /\ LET t == NewId(tasks, TaskIds)
                    IN  /\ tasks' = [tasks EXCEPT ![t] =
                             [NoTask EXCEPT !.st = "sleep", !.sess = s,
                                !.model = r2.models[ResolvedId(r1.current_model_id, mid)]]]
                        /\ transcription_task' = [transcription_task EXCEPT ![s] = t]
                 /\ models' = r2.models
                 /\ current_model_id' = r2.current_model_id
                 /\ audio_chunks' = [audio_chunks EXCEPT ![s] = <<>>]
                 /\ recording' = [recording EXCEPT ![s] = TRUE]
                 /\ UNCHANGED <<hpc, conn>>
  /\ UNCHANGED <<asr_worker, workers, model_lock, bg, plugins, out, stops>>
  /\ UNCHANGED standaloneVars

\* Faulty variant of Buffered: the frame takes the place of the buffer.
BufferedAlone(chunks, c) == <<c>>

\* audio_chunks.append
Buffered(chunks, c) == Append(chunks, c)

\* Faulty variant of HandleFrame: the frame is appended whatever recording is.
HandleFrameUngated(s, c, cap) ==
  /\ hpc[s] = "recv" /\ conn[s] = "open"
  /\ Len(audio_chunks[s]) < cap
  /\ audio_chunks' = [audio_chunks EXCEPT ![s] = Buffered(@, c)]
  /\ UNCHANGED <<hpc, recording, settings, transcription_task, asr_worker, conn,
                 tasks, workers, model_lock, bg, plugins, out, stops, msgs>>
  /\ UNCHANGED <<registryVars, standaloneVars>>

\* A binary frame, c being what its decoding gives: a chunk of bytes, which
\* is appended while recording and dropped otherwise; nothing, for a frame of
\* at most one byte (Ignored); or a ValueError (Raise), which ends the handler.
\* cap bounds the frames a buffer holds.
HandleFrame(s, c, cap) ==
  /\ hpc[s] = "recv" /\ conn[s] = "open"
  /\ EventLoopFree
  /\ recording[s] => Len(audio_chunks[s]) < cap
  /\ IF recording[s] /\ c = Raise
     THEN /\ hpc' = HpcAfterException(s)
          /\ conn' = ConnAfterException(s)
          /\ UNCHANGED audio_chunks
     ELSE /\ audio_chunks' = IF recording[s] /\ c # Ignored
                             THEN [audio_chunks EXCEPT ![s] = Buffered(@, c)]
                             ELSE audio_chunks
          /\ UNCHANGED <<hpc, conn>>
  /\ UNCHANGED <<recording, settings, transcription_task, asr_worker,
                 tasks, workers, model_lock, bg, plugins, out, stops, msgs>>
  /\ UNCHANGED <<registryVars, standaloneVars>>

\* Faulty variant of joined: the newest chunk comes first.
joined_newest_first(chunks) == [i \in 1..Len(chunks) |-> chunks[Len(chunks) + 1 - i]]

\* np.frombuffer(b"".join(audio_chunks), dtype=np.float32): the samples of the
\* chunks of the buffer, chunk after chunk in the order of the list.
joined(chunks) == [i \in 1..Len(chunks) |-> chunks[i]]

\* Faulty variant of StopBody: the empty-buffer test is missing.
StopBodyNoEmptyCheck(s, utt) ==
  /\ FreeIds(workers, WorkerIds) # {}
  /\ LET w == NewId(workers, WorkerIds)
     IN  /\ workers' = [workers EXCEPT ![w] =
              [NoWorker EXCEPT !.st = "wait",
                 !.kind = IF settings[s].use_timestamps THEN "final_ts" ELSE "final",
                 !.model = ModelOf(models, current_model_id, session_model_id[s]),
                 !.audio = joined(audio_chunks[s])]]
         /\ asr_worker' = [asr_worker EXCEPT ![s] = w]
  /\ hpc' = [hpc EXCEPT ![s] = "await_asr"]
  /\ UNCHANGED <<out, conn>>

\* The stop branch from the empty-buffer test on, for the session's stop number
\* utt: an empty final at once, or a worker is started for the final
\* transcription and awaited under wait_for.
StopBody(s, utt) ==
  IF audio_chunks[s] = <<>>
  THEN /\ out' = Sent(s, FinalMsg("", Absent, "none", utt, settings[s]))
       /\ hpc' = [hpc EXCEPT ![s] = AfterSend(s)]
       /\ UNCHANGED <<asr_worker, workers, conn>>
  ELSE IF ~Decodable(audio_chunks[s])
  THEN \* np.frombuffer raises ValueError
       /\ hpc' = HpcAfterException(s)
       /\ conn' = ConnAfterException(s)
       /\ UNCHANGED <<asr_worker, workers, out>>
  ELSE /\ FreeIds(workers, WorkerIds) # {}
       /\ LET w == NewId(workers, WorkerIds)
          IN  /\ workers' = [workers EXCEPT ![w] =
                   [NoWorker EXCEPT !.st = "wait",
                      !.kind = IF settings[s].use_timestamps THEN "final_ts" ELSE "final",
                      !.model = ModelOf(models, current_model_id, session_model_id[s]),
                      !.audio = joined(audio_chunks[s])]]
              /\ asr_worker' = [asr_worker EXCEPT ![s] = w]
       /\ hpc' = [hpc EXCEPT ![s] = "await_asr"]
       /\ UNCHANGED <<out, conn>>

\* The scene llm_polish_background passes to polish_async: the closure reads
\* the handler's session_scene when its first step evaluates the call, not
\* when the task is created.
scene_read(b) == IF bg[b].scene = Unread THEN settings[bg[b].sess].scene ELSE bg[b].scene

\* The handler of s is suspended in an await: the event loop runs what is
\* ready, and with it the first step of the session's background tasks that
\* have not taken it yet.
first_steps(s) ==
  [b \in BgIds |->
     IF bg[b].st = "run" /\ bg[b].sess = s THEN [bg[b] EXCEPT !.scene = scene_read(b)]
     ELSE bg[b]]

\* A "stop" message: recording is cleared and the session's VAD task, when it
\* has one, is cancelled and awaited. The handler is suspended in that await,
\* or in the one of the final transcription.
HandleStop(s) ==
  /\ hpc[s] = "recv" /\ conn[s] = "open"
  /\ EventLoopFree
  /\ msgs < MaxMsgs
  /\ msgs' = msgs + 1
  /\ recording' = [recording EXCEPT ![s] = FALSE]
  /\ stops' = [stops EXCEPT ![s] = @ + 1]
  /\ IF transcription_task[s] # 0
     THEN /\ tasks' = [tasks EXCEPT ![transcription_task[s]].cancel = TRUE]
          /\ hpc' = [hpc EXCEPT ![s] = "await_vad"]
          /\ UNCHANGED <<transcription_task, asr_worker, workers, out, conn>>
     ELSE /\ StopBody(s, stops[s] + 1)
          /\ UNCHANGED <<transcription_task, tasks>>
  /\ bg' = IF transcription_task[s] # 0
              \/ (audio_chunks[s] # <<>> /\ Decodable(audio_chunks[s]))
           THEN first_steps(s) ELSE bg
  /\ UNCHANGED <<settings, audio_chunks, model_lock, plugins>>
  /\ UNCHANGED <<registryVars, standaloneVars>>

\* The awaited VAD task has ended. Cancelled: transcription_task = None and
\* the stop branch goes on. Ended by an exception before the stop: the await
\* raises that exception, which ends the handler.
StopAfterVad(s) ==
  /\ hpc[s] = "await_vad"
  /\ tasks[transcription_task[s]].st \in {"cancelled", "failed"}
  /\ IF tasks[transcription_task[s]].st = "failed"
     THEN /\ hpc' = HpcAfterException(s)
          /\ conn' = ConnAfterException(s)
          /\ UNCHANGED <<transcription_task, asr_worker, workers, out>>
     ELSE /\ transcription_task' = [transcription_task EXCEPT ![s] = 0]
          /\ StopBody(s, stops[s])
  /\ UNCHANGED <<recording, settings, audio_chunks, tasks, model_lock, bg,
                 plugins, stops, msgs>>
  /\ UNCHANGED <<registryVars, standaloneVars>>

\* ---------------------------------------------------------------- the gate
\* Faulty variant of LockFree: a model call that does not take the lock.
LockFreeUnguarded == TRUE

\* "with model_lock:" on entry: the worker goes on when the lock is free.
LockFree == model_lock = 0

\* Faulty variant of Released: acquire and release without try/finally, so that a
\* call that raises keeps the lock.
ReleasedUnlessRaise(w, text) == IF text = Raise THEN w ELSE 0

\* "with model_lock:" on exit, reached when the call returns and when it raises
Released(w, text) == 0

\* The worker thread of asyncio.to_thread takes model_lock.
WorkerAcquire(w) ==
  /\ workers[w].st = "wait"
  /\ LockFree
  /\ model_lock' = w
  /\ workers' = [workers EXCEPT ![w].st = "run"]
  /\ UNCHANGED <<hpc, recording, settings, audio_chunks, transcription_task,
                 asr_worker, conn, tasks, bg, plugins, out, stops, msgs>>
  /\ UNCHANGED <<registryVars, standaloneVars>>

\* A worker is inside the model: in the ASR call, or in the forced alignment
\* that transcribe_with_timestamps runs after it under the same acquisition.
InModel(w) == workers[w].st \in {"run", "align"}

\* Faulty variant of in_alignment: the alignment asks for the gate its worker
\* holds.
in_alignment_reacquiring(w) == "wait"

\* transcribe_with_timestamps calls self.aligner.align inside the call that
\* transcribe_with_timestamps_lock makes under "with model_lock": worker w goes
\* on in the model with the gate it holds, and asks for nothing.
in_alignment(w) == "align"

\* transcribe_with_timestamps: the ASR text is not blank and the aligner is
\* called.
WorkerAlign(w, text) ==
  /\ workers[w].st = "run"
  /\ workers[w].kind = "final_ts"
  /\ ~IsBlank(text)
  /\ workers' = [workers EXCEPT ![w] = [@ EXCEPT !.st = in_alignment(w), !.text = text]]
  /\ UNCHANGED <<hpc, recording, settings, audio_chunks, transcription_task,
                 asr_worker, conn, tasks, model_lock, bg, plugins, out, stops, msgs>>
  /\ UNCHANGED <<registryVars, standaloneVars>>

\* The model call of the worker ends and model_lock is released. transcribe
\* returns a text or raises; transcribe_with_timestamps returns a blank ASR
\* text without words, raises with the ASR call, or returns from the alignment
\* with words or (the aligner failed) without. The result of an abandoned
\* worker has no reader. The samples the call was given (audio, kept for a
\* final) end with the call.
WorkerReturn(w, text, words) ==
  /\ InModel(w)
  /\ workers[w].st = "run" =>
       /\ ~words
       /\ workers[w].kind = "final_ts" => (text = Raise \/ IsBlank(text))
  /\ workers[w].st = "align" => text = workers[w].text
  /\ model_lock' = Released(w, text)
  /\ workers' = [workers EXCEPT ![w] =
       [@ EXCEPT !.st = IF workers[w].abandoned THEN "dropped" ELSE "done",
                 !.text = text, !.words = words, !.audio = <<>>]]
  /\ UNCHANGED <<hpc, recording, settings, audio_chunks, transcription_task,
                 asr_worker, conn, tasks, bg, plugins, out, stops, msgs>>
  /\ UNCHANGED <<registryVars, standaloneVars>>

\* The thread of a worker whose result was taken or dropped has ended: its id
\* is free for the next to_thread.
WorkerExit(w) ==
  /\ workers[w].st \in {"gone", "dropped"}
  /\ \A s \in Sessions : Len(out[s]) < MaxSent
  /\ workers' = [workers EXCEPT ![w] = NoWorker]
  /\ UNCHANGED <<hpc, recording, settings, audio_chunks, transcription_task,
                 asr_worker, conn, tasks, model_lock, bg, plugins, out, stops, msgs>>
  /\ UNCHANGED <<registryVars, standaloneVars>>

\* ----------------------------------------------------------- the VAD task
\* Faulty variant of GoesOn: the cancellation does not reach the coroutine.
GoesOnIgnoringCancel(t) == TRUE

\* Whether the coroutine goes on past the await it is suspended at: a task
\* that was cancelled gets CancelledError thrown in instead.
GoesOn(t) == ~tasks[t].cancel

\* Faulty variant of too_short: every snapshot is evaluated.
too_short_never(length) == FALSE

\* `if len(samples) < 1600: continue`
too_short(length) == length < WindowSamples

\* Faulty variant of pause_trigger: a long enough silence triggers, new audio or not.
pause_trigger_any_audio(silence_frames, length, last_transcribed_length) ==
  silence_frames >= FramesNeeded

\* pause_trigger of the loop: the silence has lasted frames_needed ticks and
\* the snapshot is longer than the one of the last partial.
pause_trigger(silence_frames, length, last_transcribed_length) ==
  silence_frames >= FramesNeeded /\ length > last_transcribed_length

\* Faulty variant of after_join: taking the snapshot empties the buffer.
after_join_drained(chunks) == <<>>

\* `raw = b"".join(audio_chunks)`: the list is read and is afterwards what it
\* was.
after_join(chunks) == chunks

\* One evaluation of the loop body after asyncio.sleep, up to the await of
\* to_thread inside do_transcribe when the pause trigger fires.
VadTick(t) ==
  /\ tasks[t].st = "sleep"
  /\ EventLoopFree
  /\ GoesOn(t)
  /\ LET chunks == audio_chunks[tasks[t].sess]
         n      == SampleCount(chunks)
     IN  IF chunks = <<>>
         THEN UNCHANGED <<tasks, workers>>
         ELSE IF ~Decodable(chunks)
         THEN \* np.frombuffer raises ValueError, which ends the task
              /\ tasks' = [tasks EXCEPT ![t] =
                    [NoTask EXCEPT !.st = "failed", !.sess = tasks[t].sess,
                                   !.model = tasks[t].model]]
              /\ UNCHANGED workers
         ELSE IF too_short(n)
         THEN UNCHANGED <<tasks, workers>>
         ELSE LET sf == IF is_silence(chunks) THEN tasks[t].silence_frames + 1 ELSE 0
                  trigger == pause_trigger(sf, n, tasks[t].last_transcribed_length)
              IN  /\ sf <= MaxSilence
                  /\ IF trigger /\ ~tasks[t].is_transcribing
                     THEN /\ FreeIds(workers, WorkerIds) # {}
                          /\ LET w == NewId(workers, WorkerIds)
                             IN  /\ workers' = [workers EXCEPT ![w] =
                                      [NoWorker EXCEPT !.st = "wait", !.kind = "vad",
                                                       !.model = tasks[t].model]]
                                 /\ tasks' = [tasks EXCEPT ![t] =
                                      [@ EXCEPT !.st = "await", !.silence_frames = sf,
                                                !.is_transcribing = TRUE,
                                                !.worker = w, !.snap = n]]
                     ELSE /\ tasks' = [tasks EXCEPT ![t].silence_frames =
                                         IF trigger THEN 0 ELSE sf]
                          /\ UNCHANGED workers
  /\ audio_chunks' = [audio_chunks EXCEPT ![tasks[t].sess] = after_join(@)]
  /\ UNCHANGED <<hpc, recording, settings, transcription_task,
                 asr_worker, conn, model_lock, bg, plugins, out, stops, msgs>>
  /\ UNCHANGED <<registryVars, standaloneVars>>

\* Faulty variant of text_changed: every non-empty text counts as changed.
text_non_empty(text, last_text) == text # ""

\* `if text and text != last_text` of do_transcribe
text_changed(text, last_text) == text # "" /\ text # last_text

\* Faulty variant of after_attempt: an exception of the attempt leaves do_transcribe
\* and ends the task.
after_attempt_uncaught(failed) == IF failed THEN "failed" ELSE "sleep"

\* Where the task is after do_transcribe: `except Exception` swallows what the
\* model call or the send raised, and the loop goes on to its next sleep.
after_attempt(failed) == "sleep"

\* Faulty variant of silence_frames_after_run: the counter is left as it is.
silence_frames_kept(silence_frames) == silence_frames

\* `silence_frames = 0` after `await do_transcribe(...)`
silence_frames_after_run(silence_frames) == 0

\* do_transcribe after the await of to_thread: a new non-empty text is kept and
\* sent as a partial; an exception (of the model call or of send) is swallowed;
\* is_transcribing is cleared, and the loop resets silence_frames.
VadResume(t) ==
  /\ tasks[t].st = "await"
  /\ GoesOn(t)
  /\ workers[tasks[t].worker].st = "done"
  /\ LET w    == tasks[t].worker
         text == workers[w].text
         s    == tasks[t].sess
         emit == text # Raise /\ text_changed(text, tasks[t].last_text)
         failed == text = Raise \/ (emit /\ conn[s] # "open")
     IN  /\ tasks' = [tasks EXCEPT ![t] =
               [@ EXCEPT !.st = after_attempt(failed),
                         !.silence_frames = silence_frames_after_run(tasks[t].silence_frames),
                         !.is_transcribing = FALSE, !.worker = 0, !.snap = 0,
                         !.last_text = IF emit THEN text ELSE @,
                         !.last_transcribed_length = IF emit THEN tasks[t].snap ELSE @]]
         /\ out' = IF emit THEN Sent(s, PartialMsg(text, t))
                   ELSE out
         /\ workers' = [workers EXCEPT ![w] = [NoWorker EXCEPT !.st = "gone"]]
  /\ UNCHANGED <<hpc, recording, settings, audio_chunks, transcription_task,
                 asr_worker, conn, model_lock, bg, plugins, stops, msgs>>
  /\ UNCHANGED <<registryVars, standaloneVars>>

\* CancelledError is thrown into the cancelled task at its await (the sleep or
\* the to_thread): the finally clears is_transcribing, the task ends cancelled
\* and the worker it awaited goes on alone.
VadCancelled(t) ==
  /\ tasks[t].st \in {"sleep", "await"}
  /\ tasks[t].cancel
  /\ tasks' = [tasks EXCEPT ![t] =
       \* the locals of the ended coroutine are gone
       [NoTask EXCEPT !.st = "cancelled", !.sess = tasks[t].sess, !.cancel = TRUE,
                      !.model = tasks[t].model]]
  /\ workers' = IF tasks[t].st = "await"
                THEN [workers EXCEPT ![tasks[t].worker] =
                        [@ EXCEPT !.abandoned = TRUE,
                                  !.st = IF workers[tasks[t].worker].st = "done"
                                         THEN "dropped" ELSE @]]
                ELSE workers
  /\ UNCHANGED <<hpc, recording, settings, audio_chunks, transcription_task,
                 asr_worker, conn, model_lock, bg, plugins, out, stops, msgs>>
  /\ UNCHANGED <<registryVars, standaloneVars>>

\* ------------------------------------------------- the final transcription
\* The text the final starts from: the pause-aware punctuation of the aligned
\* words in timestamps mode, the transcript otherwise.
OriginalText(s, w) ==
  IF settings[s].use_timestamps /\ workers[w].words
  THEN Punctuate(workers[w].text)
  ELSE workers[w].text

\* Faulty variant of FinalText: the rules polish is applied whatever enable_polish is.
FinalTextPolished(s, orig) == run_plugins(ScenePolish(orig))

\* The two-step response: the text and the polish_method of the final.
FinalText(s, orig) ==
  IF settings[s].enable_polish THEN run_plugins(ScenePolish(orig))
  ELSE run_plugins(orig)

FinalMethod(s) == IF settings[s].enable_polish THEN "rules" ELSE "none"

\* get_llm_polisher() is set by warmup_model before the server accepts.
WantsLlm(s) == settings[s].enable_polish /\ settings[s].use_llm_polish

\* The awaited worker has ended. When the model call raised, the exception
\* leaves the stop branch (only asyncio.TimeoutError is caught there) and ends
\* the handler in the top-level except. Otherwise the final is sent, after the
\* rules polish when polish is enabled, and the background LLM polish is
\* started when LLM polish is enabled too.
FinalResult(s) ==
  /\ hpc[s] = "await_asr"
  /\ workers[asr_worker[s]].st = "done"
  /\ LET w    == asr_worker[s]
         orig == OriginalText(s, w)
         spawn == workers[w].text # Raise /\ WantsLlm(s) /\ conn[s] = "open"
     IN  /\ IF workers[w].text = Raise
            THEN /\ hpc' = HpcAfterException(s)
                 /\ conn' = ConnAfterException(s)
                 /\ out' = out
            ELSE /\ hpc' = [hpc EXCEPT ![s] = AfterSend(s)]
                 /\ conn' = conn
                 /\ out' = Sent(s, FinalMsg(FinalText(s, orig), orig, FinalMethod(s),
                                            stops[s], settings[s]))
         /\ IF spawn
            THEN /\ FreeIds(bg, BgIds) # {}
                 /\ bg' = [bg EXCEPT ![NewId(bg, BgIds)] =
                      [NoBg EXCEPT !.st = "run", !.sess = s, !.utt = stops[s],
                                   !.text = orig]]
            ELSE bg' = bg
         /\ workers' = [workers EXCEPT ![w] = [NoWorker EXCEPT !.st = "gone"]]
  /\ asr_worker' = [asr_worker EXCEPT ![s] = 0]
  /\ UNCHANGED <<recording, settings, audio_chunks, transcription_task, tasks,
                 model_lock, plugins, stops, msgs>>
  /\ UNCHANGED <<registryVars, standaloneVars>>

\* Faulty variant of AfterTimeout: the timeout is not caught and ends the handler.
AfterTimeoutUncaught(s) == "done"

\* "except asyncio.TimeoutError": after the empty final the loop goes on.
AfterTimeout(s) == AfterSend(s)

\* wait_for times out before the worker has ended, whether it is in the model
\* or still waits for model_lock: the worker goes on alone and an empty final
\* is sent.
FinalTimeout(s) ==
  /\ hpc[s] = "await_asr"
  /\ workers[asr_worker[s]].st \in {"wait", "run", "align"}
  /\ workers' = [workers EXCEPT ![asr_worker[s]].abandoned = TRUE]
  /\ asr_worker' = [asr_worker EXCEPT ![s] = 0]
  /\ out' = Sent(s, FinalMsg("", "", "none", stops[s], settings[s]))
  /\ hpc' = [hpc EXCEPT ![s] = AfterTimeout(s)]
  /\ UNCHANGED <<recording, settings, audio_chunks, transcription_task, conn, tasks,
                 model_lock, bg, plugins, stops, msgs>>
  /\ UNCHANGED <<registryVars, standaloneVars>>

\* ------------------------------------------------ the background LLM polish
\* Faulty variant of PolishMethod: the "if polished:" test on the stripped answer is
\* missing.
PolishMethodNoBlankTest(text, resp) ==
  IF IsBlank(text) THEN "none"
  ELSE IF resp # LlmFail THEN "llm"
  ELSE "rules"

\* LLMPolisher.polish_async(original_text, scene, use_llm=True) for the LLM's
\* answer resp: the method it returns.
PolishMethod(text, resp) ==
  IF IsBlank(text) THEN "none"
  ELSE IF resp # LlmFail /\ Strip(resp) # "" THEN "llm"
  ELSE "rules"

\* Faulty variant of BgFinish: the task does not end with its send and sends again.
BgFinishRepeating(b, resp) ==
  /\ bg[b].st = "run"
  /\ out' = IF PolishMethod(bg[b].text, resp) = "llm"
            THEN Sent(bg[b].sess,
                      PolishUpdateMsg(run_plugins(Strip(resp)), bg[b].utt, resp))
            ELSE out
  /\ UNCHANGED <<hpc, recording, settings, audio_chunks, transcription_task, bg,
                 asr_worker, conn, tasks, workers, model_lock, plugins, stops, msgs>>
  /\ UNCHANGED <<registryVars, standaloneVars>>

\* Faulty variant of after_polish: the exception of a failed send leaves the
\* coroutine and the task ends with it.
after_polish_uncaught(failed) == IF failed THEN "failed" ELSE "done"

\* How llm_polish_background ends: `except Exception` catches and logs what
\* polish_async or websocket.send raised, and the coroutine returns.
after_polish(failed) == "done"

\* The first step of llm_polish_background, up to the await of the LLM's
\* answer: polish_async is called with the original_text and the session_scene
\* the handler's variables hold now. original_text is the one of the task's
\* utterance: it is assigned after the await of a final transcription only,
\* and the task takes its first step when its handler is suspended for the
\* first time.
BgBegin(b) ==
  /\ bg[b].st = "run" /\ bg[b].scene = Unread
  /\ bg' = [bg EXCEPT ![b].scene = scene_read(b)]
  /\ UNCHANGED <<hpc, recording, settings, audio_chunks, transcription_task, out,
                 asr_worker, conn, tasks, workers, model_lock, plugins, stops, msgs>>
  /\ UNCHANGED <<registryVars, standaloneVars>>

\* llm_polish_background ends, from its first step when it has not taken it
\* yet: a polish_update is sent when the method is "llm"; an exception of the
\* call or of the send is caught in the task.
BgFinish(b, resp) ==
  /\ bg[b].st = "run"
  /\ out' = IF PolishMethod(bg[b].text, resp) = "llm"
            THEN Sent(bg[b].sess,
                      PolishUpdateMsg(run_plugins(Strip(resp)), bg[b].utt, resp))
            ELSE out
  /\ bg' = [bg EXCEPT ![b] =
       [@ EXCEPT !.st = after_polish(/\ PolishMethod(bg[b].text, resp) = "llm"
                                     /\ conn[bg[b].sess] # "open"),
                 !.resp = resp, !.scene = scene_read(b)]]
  /\ UNCHANGED <<hpc, recording, settings, audio_chunks, transcription_task,
                 asr_worker, conn, tasks, workers, model_lock, plugins, stops, msgs>>
  /\ UNCHANGED <<registryVars, standaloneVars>>

\* ---------------------------------------------------------- the connection
\* The client closes the connection.
Disconnect(s) ==
  /\ conn[s] = "open"
  /\ Cardinality({x \in Sessions : conn[x] = "client_closed"}) < MaxDisconnects
  /\ conn' = [conn EXCEPT ![s] = "client_closed"]
  /\ UNCHANGED <<hpc, recording, settings, audio_chunks, transcription_task,
                 asr_worker, tasks, workers, model_lock, bg, plugins, out, stops, msgs>>
  /\ UNCHANGED <<registryVars, standaloneVars>>

\* The message loop ends: "async for" finds the connection closed. Nothing
\* else is done: the session's VAD task is not cancelled.
HandlerEnd(s) ==
  /\ hpc[s] = "recv" /\ conn[s] = "client_closed"
  /\ hpc' = [hpc EXCEPT ![s] = "done"]
  /\ UNCHANGED <<conn, recording, settings, audio_chunks, transcription_task,
                 asr_worker, tasks, workers, model_lock, bg, plugins, out, stops, msgs>>
  /\ UNCHANGED <<registryVars, standaloneVars>>

\* ------------------------------------------------------- the PluginLoader
\* loaded_plugins is a dict: its entries are kept in insertion order, a deleted
\* entry leaves a hole (present FALSE) that an iteration in progress skips,
\* and an iteration raises RuntimeError when it finds the size of the dict
\* changed. An entry is a PluginInfo: the plugin's id, its state, what its
\* on_transcription does (kind) and whether an error is recorded.
LoaderPluginIds == {"p1", "p2"}
PluginStates    == {"loaded", "enabled", "disabled", "failed"}

PresentSlots == {j \in DOMAIN loaded_plugins : loaded_plugins[j].present}
SlotOf(id)   == {j \in PresentSlots : loaded_plugins[j].id = id}

\* Faulty variant of is_enabled: every plugin that has not failed counts as enabled.
is_enabled_unless_failed(info) == info.state # "failed"

\* PluginInfo.is_enabled
is_enabled(info) == info.state = "enabled"

\* load_plugin has read the manifest and instantiated the plugin: the new
\* PluginInfo, in state LOADED, is stored under the plugin's id, in the place
\* of the entry the id already has, at the end otherwise.
LoadPlugin(id, kind) ==
  /\ LET info == [id |-> id, state |-> "loaded", kind |-> kind, error |-> FALSE,
                  present |-> TRUE]
     IN  IF SlotOf(id) # {}
         THEN LET j == CHOOSE k \in SlotOf(id) : TRUE
              IN  /\ loaded_plugins' = [loaded_plugins EXCEPT ![j] = info]
                  /\ processing' = IF processing.st = "in_plugin" /\ processing.i = j
                                   THEN [processing EXCEPT !.stale = TRUE]
                                   ELSE processing
         ELSE /\ Len(loaded_plugins) < MaxSlots
              /\ loaded_plugins' = Append(loaded_plugins, info)
              /\ processing' = processing
  /\ UNCHANGED <<serverVars, registryVars, punctuationVars, decoderVars, pureVars>>

\* unload_plugin of a loaded plugin whose on_unload does not raise: the entry
\* is deleted.
UnloadPlugin(id) ==
  /\ SlotOf(id) # {}
  /\ LET j == CHOOSE k \in SlotOf(id) : TRUE
     IN  /\ loaded_plugins' = [loaded_plugins EXCEPT ![j].present = FALSE]
         /\ processing' = IF processing.st = "in_plugin" /\ processing.i = j
                          THEN [processing EXCEPT !.stale = TRUE]
                          ELSE processing
  /\ UNCHANGED <<serverVars, registryVars, punctuationVars, decoderVars, pureVars>>

\* The owner of the loader enables or disables a plugin: plugin_info.state is
\* assigned.
SetState(j, st) ==
  /\ j \in PresentSlots
  /\ loaded_plugins[j].state # st
  /\ loaded_plugins' = [loaded_plugins EXCEPT ![j].state = st]
  /\ UNCHANGED <<processing, serverVars, registryVars, punctuationVars, decoderVars, pureVars>>

\* process_text(text) is called: the iteration over loaded_plugins.items()
\* starts.
ProcessTextBegin(text) ==
  /\ processing.st \in {"idle", "returned", "raised"}
  /\ processing.n < MaxCalls
  /\ processing' = [st |-> "run", i |-> 1, text |-> text,
                    size |-> Cardinality(PresentSlots), kind |-> "",
                    stale |-> FALSE, n |-> processing.n + 1]
  /\ UNCHANGED <<loaded_plugins, serverVars, registryVars, punctuationVars, decoderVars, pureVars>>

\* The loop takes the next entry: RuntimeError when the dict has changed size,
\* the return of the text when no entry is left; an entry that is not enabled
\* is passed over, an enabled one has its on_transcription called.
ProcessTextNext ==
  /\ processing.st = "run"
  /\ LET rest == {j \in PresentSlots : j >= processing.i}
     IN  IF Cardinality(PresentSlots) # processing.size
         THEN processing' = [processing EXCEPT !.st = "raised"]
         ELSE IF rest = {}
         THEN processing' = [processing EXCEPT !.st = "returned"]
         ELSE LET j == CHOOSE k \in rest : \A l \in rest : k <= l
              IN  IF is_enabled(loaded_plugins[j])
                  THEN processing' = [processing EXCEPT !.st = "in_plugin", !.i = j,
                                                       !.kind = loaded_plugins[j].kind]
                  ELSE processing' = [processing EXCEPT !.i = j + 1]
  /\ UNCHANGED <<loaded_plugins, serverVars, registryVars, punctuationVars, decoderVars, pureVars>>

\* Faulty variant of PluginFailure: the failure is logged and not recorded.
PluginFailureUnrecorded(info) == info

\* "except Exception" around on_transcription: the PluginInfo is marked.
PluginFailure(info) == [info EXCEPT !.state = "failed", !.error = TRUE]

\* The awaited on_transcription ends: its return value is the text from now
\* on, or it has raised, the text stays and the PluginInfo that was called is
\* marked (when it has been replaced or unloaded meanwhile, the mark is on an
\* object the dict no longer holds).
ProcessTextPluginDone ==
  /\ processing.st = "in_plugin"
  /\ LET j == processing.i
         r == ApplyPlugin(processing.kind, processing.text)
     IN  /\ processing' = [processing EXCEPT !.st = "run", !.i = j + 1, !.stale = FALSE,
                                             !.kind = "",
                                             !.text = IF r = Raise THEN @ ELSE r]
         /\ loaded_plugins' =
              IF r = Raise /\ ~processing.stale
              THEN [loaded_plugins EXCEPT ![j] = PluginFailure(@)]
              ELSE loaded_plugins
  /\ UNCHANGED <<serverVars, registryVars, punctuationVars, decoderVars, pureVars>>

\* ------------------------------------------- the ChinesePunctuationPlugin
\* Restoring punctuation appends the library's mark to the text.
ZhprRestored(text)         == text \o ","
TransformersRestored(text) == text \o ":"

\* Adapter.restore of a library that is available. The library works ("ok"),
\* is not installed ("import_error": the ImportError is raised again) or
\* fails while it processes the text ("error": the adapter logs the error and
\* returns the text it was given).
AdapterRestore(library, text, outcome) ==
  IF IsBlank(text) THEN text
  ELSE IF outcome = "ok"
       THEN IF library = "zhpr" THEN ZhprRestored(text) ELSE TransformersRestored(text)
       ELSE IF outcome = "import_error" THEN Raise ELSE text

\* ChinesePunctuationPlugin._try_library: None for an unknown library, a
\* library that is not available and every exception of the adapter, the
\* adapter's result otherwise.
try_library(library, text, outcome) ==
  IF library \notin Libraries THEN None
  ELSE IF outcome[library] = "unavailable" THEN None
  ELSE LET r == AdapterRestore(library, text, outcome[library])
       IN  IF r = Raise THEN None ELSE r

\* ChinesePunctuationPlugin.initialize: the settings are stored before they
\* are validated, and an invalid library or device raises ValueError before
\* _initialized is set.
Initialize(config) ==
  /\ punctuation_plugin' =
       [punctuation_plugin EXCEPT
          !.enabled = config.auto_punctuation,
          !.library = config.library,
          !.device = config.device,
          !.initialized = IF config.library \in Libraries /\ config.device \in Devices
                          THEN TRUE ELSE punctuation_plugin.initialized]
  /\ UNCHANGED <<on_transcription, serverVars, registryVars, loaderVars, decoderVars, pureVars>>

\* ChinesePunctuationPlugin.cleanup
Cleanup ==
  /\ punctuation_plugin' = [punctuation_plugin EXCEPT !.zhpr_adapter = FALSE,
                                                      !.transformers_adapter = FALSE,
                                                      !.model_manager = FALSE,
                                                      !.initialized = FALSE]
  /\ UNCHANGED <<on_transcription, serverVars, registryVars, loaderVars, decoderVars, pureVars>>

\* The adapters that exist after _try_library was called for each library of
\* tried: an adapter is made the first time its library is tried.
AdaptersAfter(p, tried) ==
  [p EXCEPT !.zhpr_adapter = p.zhpr_adapter \/ (\E i \in DOMAIN tried : tried[i] = "zhpr"),
            !.transformers_adapter =
               p.transformers_adapter \/ (\E i \in DOMAIN tried : tried[i] = "transformers")]

\* ChinesePunctuationPlugin.on_transcription(text). manager is what the
\* constructor of ModelManager does when the manager is not loaded yet,
\* outcome what each library does in this call.
OnTranscription(text, manager, outcome) ==
  LET p        == punctuation_plugin
      primary  == p.library
      fallback == IF primary = "zhpr" THEN "transformers" ELSE "zhpr"
      r1       == try_library(primary, text, outcome)
      r2       == try_library(fallback, text, outcome)
      call     == [text |-> text, outcome |-> outcome, primary |-> None,
                   tried |-> <<>>, result |-> text]
  IN  /\ IF ~p.enabled \/ ~p.initialized \/ IsBlank(text)
         THEN /\ on_transcription' = call
              /\ punctuation_plugin' = p
         ELSE IF ~p.model_manager /\ manager = "raise"
         THEN /\ on_transcription' = [call EXCEPT !.primary = primary]
              /\ punctuation_plugin' = p
         ELSE IF r1 # None
         THEN /\ on_transcription' = [call EXCEPT !.primary = primary,
                                                  !.tried = <<primary>>, !.result = r1]
              /\ punctuation_plugin' =
                   AdaptersAfter([p EXCEPT !.model_manager = TRUE], <<primary>>)
         ELSE /\ on_transcription' =
                   [call EXCEPT !.primary = primary,
                                !.tried = <<primary, fallback>>,
                                !.result = IF r2 # None THEN r2 ELSE text]
              /\ punctuation_plugin' =
                   AdaptersAfter([p EXCEPT !.model_manager = TRUE], <<primary, fallback>>)
      /\ UNCHANGED <<serverVars, registryVars, loaderVars, decoderVars, pureVars>>

\* ------------------------------------------------- decoding a binary frame
\* The int16 two bytes stand for, the low byte first.
Int16(lo, hi) ==
  LET u == lo + 256 * hi IN IF u >= 32768 THEN u - 65536 ELSE u

\* Long division of r by 32767 for n more binary places: the places (as a
\* number) and the remainder that is left.
RECURSIVE Places(_, _, _)
Places(r, n, acc) ==
  IF n = 0 THEN [bits |-> acc, rem |-> r]
  ELSE IF 2 * r >= 32767 THEN Places(2 * r - 32767, n - 1, 2 * acc + 1)
       ELSE Places(2 * r, n - 1, 2 * acc)

\* The number of doublings that bring a, 0 < a < 32767, to 32767 or above.
RECURSIVE Doublings(_)
Doublings(a) == IF a >= 32767 THEN 0 ELSE 1 + Doublings(2 * a)

\* The four bytes, the lowest first, of the float32 nearest to v / 32767.0,
\* ties to the even significand: sign, biased exponent, 23 fraction bits.
Float32Bytes(v) ==
  IF v = 0 THEN <<0, 0, 0, 0>>
  ELSE LET sign  == IF v < 0 THEN 1 ELSE 0
           a     == IF v < 0 THEN 0 - v ELSE v
           k     == IF a > 32767 THEN 0 ELSE Doublings(a)
           \* a / 32767 = (1 + first / 32767) * 2^-k, or 1 + 1 / 32767 for a = 32768
           first == IF a > 32767 THEN a - 32767 ELSE a * (2 ^ k) - 32767
           frac  == Places(first, 23, 0)
           guard == Places(frac.rem, 1, 0)
           up    == guard.bits = 1 /\ (guard.rem # 0 \/ frac.bits % 2 = 1)
           f     == IF up THEN frac.bits + 1 ELSE frac.bits
           carry == f = 2 ^ 23
           F     == IF carry THEN 0 ELSE f
           E     == 127 - k + (IF carry THEN 1 ELSE 0)
       IN  << F % 256, (F \div 256) % 256, (E % 2) * 128 + F \div 65536,
              sign * 128 + E \div 2 >>

\* np.frombuffer(audio_data, dtype=np.int16).astype(np.float32) / 32767.0,
\* then tobytes(), for audio_data of even length
RECURSIVE Int16ToFloat32(_)
Int16ToFloat32(data) ==
  IF data = <<>> THEN <<>>
  ELSE Float32Bytes(Int16(data[1], data[2])) \o Int16ToFloat32(Tail(Tail(data)))

\* The binary branch of handle_client for message m while recording: what is
\* appended to audio_chunks, if anything. np.frombuffer raises ValueError for
\* int16 data of odd length.
DecodeFrame(m) ==
  IF Len(m) <= 1 THEN [outcome |-> "ignored", bytes |-> <<>>]
  ELSE IF m[1] = 1 THEN [outcome |-> "appended", bytes |-> Tail(m)]
  ELSE IF m[1] = 2
  THEN IF Len(Tail(m)) % 2 # 0 THEN [outcome |-> "raised", bytes |-> <<>>]
       ELSE [outcome |-> "appended", bytes |-> Int16ToFloat32(Tail(m))]
  ELSE [outcome |-> "appended", bytes |-> m]

\* The binary message m arrives at a recording session and is decoded; one
\* message is followed.
ReceiveBinary(m) ==
  /\ decoded.outcome = "none"
  /\ message' = m
  /\ decoded' = DecodeFrame(m)
  /\ UNCHANGED <<serverVars, registryVars, loaderVars, punctuationVars, pureVars>>

\* ------------------------------------------------- ScenePolisher.polish
\* One glossary entry applied to the text so far: the term is replaced where
\* it occurs; pattern.sub raises re.error for a bad template, inside the try
\* of the loop, which goes on with the text as it was; an entry without term
\* is skipped; entry.get, outside the try, raises AttributeError for an entry
\* that is no object.
apply_entry(result, entry) ==
  IF entry = "string" THEN Raise
  ELSE IF entry = "a->b" /\ result = "a" THEN "b"
  ELSE result

\* ScenePolisher.apply_glossary from entry i on
RECURSIVE apply_glossary(_, _, _)
apply_glossary(result, glossary, i) ==
  IF i > Len(glossary) THEN result
  ELSE LET r == apply_entry(result, glossary[i])
       IN  IF r = Raise THEN Raise ELSE apply_glossary(r, glossary, i + 1)

\* TextPolisher.polish on a text without fillers: the final period is added.
base_polish(text) == IF IsBlank(text) THEN text ELSE text \o "."

\* Where ScenePolisher.polish raises on a text that is not blank: a dict lookup
\* with an unhashable key (the type, when the style is to be derived from it;
\* the style, when the prompt is looked up), len() of a glossary that is a
\* number, and the slice prompt[:30] of a custom prompt that is a number.
polish_raises(scene) ==
  \/ scene.polish_style = Absent /\ scene.type = JsonList
  \/ scene.glossary.json = "number"
  \/ scene.custom_prompt = JsonNumber
  \/ scene.custom_prompt = Absent /\ scene.polish_style = JsonList

\* ScenePolisher.polish(text, scene): the polished text, or Raise.
polish(text, scene) ==
  IF IsBlank(text) THEN text
  ELSE IF polish_raises(scene) THEN Raise
  ELSE LET replaced == apply_glossary(text, scene.glossary.entries, 1)
       IN  IF replaced = Raise THEN Raise ELSE base_polish(replaced)

\* scene_polisher.polish(original_text, session_scene) is called.
Polish(text, scene) ==
  /\ polished.st = "none"
  /\ polished' = [st |-> "done", text |-> text, scene |-> scene,
                  result |-> polish(text, scene)]
  /\ UNCHANGED <<serverVars, registryVars, loaderVars, punctuationVars, decoderVars,
                 prompted, punctuated>>

\* ------------------------------------- TimestampAwarePunctuator.punctuate
\* _is_chinese: a character of the text lies in U+4E00..U+9FFF.
is_chinese(text) == \E i \in 1..Len(text) : 19968 <= text[i] /\ text[i] <= 40959

\* What is appended after a word for the gap to the next entry: a full stop and
\* a line feed or ". ", a comma, an enumeration comma or a space, a space
\* between two words without Chinese characters, or nothing (<<>>).
marker(word, next_word, gap) ==
  IF gap > LONG_PAUSE_THRESHOLD
  THEN IF is_chinese(word) THEN <<12290, 10>> ELSE <<46, 32>>
  ELSE IF gap > MID_PAUSE_THRESHOLD
  THEN IF is_chinese(word) THEN <<65292>> ELSE <<44, 32>>
  ELSE IF gap > SHORT_PAUSE_THRESHOLD
  THEN IF is_chinese(word) THEN <<12289>> ELSE <<32>>
  ELSE IF ~is_chinese(word) /\ ~is_chinese(next_word) THEN <<32>>
  ELSE <<>>

\* result_parts after the loop over the entries from entry i on: an entry
\* without word is skipped; the others give their word and, unless they are
\* the last entry of the list, what marker gives for the next entry.
RECURSIVE result_parts(_, _)
result_parts(words, i) ==
  IF i > Len(words) THEN <<>>
  ELSE IF words[i].word = <<>> THEN result_parts(words, i + 1)
  ELSE LET m == IF i < Len(words)
                THEN marker(words[i].word, words[i + 1].word,
                            words[i + 1].start - words[i].end)
                ELSE <<>>
       IN  <<words[i].word>> \o (IF m = <<>> THEN <<>> ELSE <<m>>)
             \o result_parts(words, i + 1)

\* str.rstrip(): spaces, tabs and line ends are taken off the end.
RECURSIVE rstrip(_)
rstrip(text) ==
  IF text # <<>> /\ text[Len(text)] \in {9, 10, 11, 12, 13, 32}
  THEN rstrip(SubSeq(text, 1, Len(text) - 1))
  ELSE text

\* endswith(("。", ".", "!", "?", "！", "？"))
ends_sentence(text) ==
  text # <<>> /\ text[Len(text)] \in {12290, 46, 33, 63, 65281, 65311}

\* The full stop appended at the end, by the last entry's word, unless the last
\* part ends a sentence already.
final_mark(words, parts) ==
  IF parts # <<>> /\ ~ends_sentence(rstrip(parts[Len(parts)]))
  THEN IF is_chinese(words[Len(words)].word) THEN <<(<<12290>>)>> ELSE <<(<<46>>)>>
  ELSE <<>>

\* "".join(result_parts)
RECURSIVE join(_)
join(parts) == IF parts = <<>> THEN <<>> ELSE Head(parts) \o join(Tail(parts))

\* TimestampAwarePunctuator.punctuate(words)
punctuate(words) ==
  LET parts == result_parts(words, 1)
  IN  join(parts \o final_mark(words, parts))

\* punctuator.punctuate(words) is called on a list that is not empty.
PunctuateWords(words) ==
  /\ punctuated.st = "none"
  /\ words # <<>>
  /\ punctuated' = [st |-> "done", words |-> words,
                    parts |-> result_parts(words, 1), result |-> punctuate(words)]
  /\ UNCHANGED <<serverVars, registryVars, loaderVars, punctuationVars, decoderVars,
                 polished, prompted>>

\* --------------------------------------------------- LLMPolisher._get_prompt
\* The keys of DEFAULT_POLISH_PROMPTS.
PromptTypes ==
  {"general", "coding", "writing", "social", "medical",
   "legal", "technical", "finance", "engineering"}

\* APP_SCENE_MAPPING: bundle identifiers and the scene types they stand for.
APP_SCENE_MAPPING ==
  <<[bundle_id |-> "com.apple.mail", scene |-> "formal"],
     [bundle_id |-> "com.readdle.smartemail", scene |-> "formal"],
     [bundle_id |-> "com.microsoft.Outlook", scene |-> "formal"],
     [bundle_id |-> "com.sparkmailapp.Spark", scene |-> "formal"],
     [bundle_id |-> "com.tencent.xinWeChat", scene |-> "social"],
     [bundle_id |-> "com.apple.MobileSMS", scene |-> "social"],
     [bundle_id |-> "com.slack.Slack", scene |-> "social"],
     [bundle_id |-> "com.discord.Discord", scene |-> "social"],
     [bundle_id |-> "com.telegram.desktop", scene |-> "social"],
     [bundle_id |-> "com.whatsapp.WhatsApp", scene |-> "social"],
     [bundle_id |-> "com.microsoft.VSCode", scene |-> "coding"],
     [bundle_id |-> "com.apple.dt.Xcode", scene |-> "coding"],
     [bundle_id |-> "com.jetbrains.intellij", scene |-> "coding"],
     [bundle_id |-> "com.sublimehq.Sublime-Text", scene |-> "coding"],
     [bundle_id |-> "com.googlecode.iterm2", scene |-> "coding"],
     [bundle_id |-> "com.apple.Terminal", scene |-> "coding"],
     [bundle_id |-> "com.apple.iWork.Pages", scene |-> "writing"],
     [bundle_id |-> "com.microsoft.Word", scene |-> "writing"],
     [bundle_id |-> "notion.id", scene |-> "writing"],
     [bundle_id |-> "com.google.Chrome", scene |-> "writing"]>>

\* APP_NAME_SCENE_MAPPING, in the order of the dict: the patterns, character by
\* character (U+xxxx: a character outside ASCII), and their scene types.
APP_NAME_SCENE_MAPPING ==
  <<[pattern |-> <<"m", "a", "i", "l">>, scene |-> "formal"],
     [pattern |-> <<"o", "u", "t", "l", "o", "o", "k">>, scene |-> "formal"],
     [pattern |-> <<"s", "p", "a", "r", "k">>, scene |-> "formal"],
     [pattern |-> <<"U+5FAE", "U+4FE1">>, scene |-> "social"],
     [pattern |-> <<"w", "e", "c", "h", "a", "t">>, scene |-> "social"],
     [pattern |-> <<"s", "l", "a", "c", "k">>, scene |-> "social"],
     [pattern |-> <<"d", "i", "s", "c", "o", "r", "d">>, scene |-> "social"],
     [pattern |-> <<"t", "e", "l", "e", "g", "r", "a", "m">>, scene |-> "social"],
     [pattern |-> <<"w", "h", "a", "t", "s", "a", "p", "p">>, scene |-> "social"],
     [pattern |-> <<"m", "e", "s", "s", "a", "g", "e", "s">>, scene |-> "social"],
     [pattern |-> <<"U+4FE1", "U+606F">>, scene |-> "social"],
     [pattern |-> <<"v", "s", "c", "o", "d", "e">>, scene |-> "coding"],
     [pattern |-> <<"v", "i", "s", "u", "a", "l", " ", "s", "t", "u", "d", "i", "o", " ", "c", "o", "d", "e">>,
      scene |-> "coding"],
     [pattern |-> <<"x", "c", "o", "d", "e">>, scene |-> "coding"],
     [pattern |-> <<"t", "e", "r", "m", "i", "n", "a", "l">>, scene |-> "coding"],
     [pattern |-> <<"U+7EC8", "U+7AEF">>, scene |-> "coding"],
     [pattern |-> <<"i", "t", "e", "r", "m">>, scene |-> "coding"],
     [pattern |-> <<"p", "a", "g", "e", "s">>, scene |-> "writing"],
     [pattern |-> <<"w", "o", "r", "d">>, scene |-> "writing"],
     [pattern |-> <<"n", "o", "t", "i", "o", "n">>, scene |-> "writing"]>>

UpperCase == <<"A", "B", "C", "D", "E", "F", "G", "H", "I", "J", "K", "L", "M",
               "N", "O", "P", "Q", "R", "S", "T", "U", "V", "W", "X", "Y", "Z">>
LowerCase == <<"a", "b", "c", "d", "e", "f", "g", "h", "i", "j", "k", "l", "m",
               "n", "o", "p", "q", "r", "s", "t", "u", "v", "w", "x", "y", "z">>

\* str.lower()
lower(name) ==
  [i \in 1..Len(name) |->
     IF \E k \in 1..Len(UpperCase) : UpperCase[k] = name[i]
     THEN LowerCase[CHOOSE k \in 1..Len(UpperCase) : UpperCase[k] = name[i]]
     ELSE name[i]]

\* `name_pattern in app_name`
Contains(pattern, name) ==
  \E i \in 0..(Len(name) - Len(pattern)) :
    \A k \in 1..Len(pattern) : name[i + k] = pattern[k]

\* `bundle_id in APP_SCENE_MAPPING`: the entries of the identifier.
BundleEntries(bundle_id) ==
  {k \in 1..Len(APP_SCENE_MAPPING) : APP_SCENE_MAPPING[k].bundle_id = bundle_id}

\* The loop over APP_NAME_SCENE_MAPPING.items(): the entries whose pattern the
\* lowered name contains.
NameEntries(name) ==
  {k \in 1..Len(APP_NAME_SCENE_MAPPING) :
     Contains(APP_NAME_SCENE_MAPPING[k].pattern, lower(name))}

First(S) == CHOOSE k \in S : \A j \in S : k <= j

\* DEFAULT_POLISH_PROMPTS[scene_type]
default_prompt(scene_type) == "<default " \o scene_type \o ">"

\* DEFAULT_POLISH_PROMPTS.get(scene_type, DEFAULT_POLISH_PROMPTS["general"])
prompt_or_general(scene_type) ==
  IF scene_type \in PromptTypes THEN default_prompt(scene_type)
  ELSE default_prompt("general")

\* Faulty variant of get_prompt: the active application is looked at before the
\* custom prompt.
get_prompt_app_first(scene) ==
  LET app == scene.active_app
  IN  IF app.present /\ BundleEntries(app.bundle_id) # {}
      THEN prompt_or_general(APP_SCENE_MAPPING[First(BundleEntries(app.bundle_id))].scene)
      ELSE IF app.present /\ NameEntries(app.name) # {}
      THEN prompt_or_general(APP_NAME_SCENE_MAPPING[First(NameEntries(app.name))].scene)
      ELSE IF scene.custom_prompt \notin {Absent, ""} THEN scene.custom_prompt
      ELSE prompt_or_general(IF scene.type = Absent THEN "general" ELSE scene.type)

\* LLMPolisher._get_prompt(scene)
get_prompt(scene) ==
  LET app == scene.active_app
  IN  IF scene.custom_prompt \notin {Absent, ""} THEN scene.custom_prompt
      ELSE IF app.present /\ BundleEntries(app.bundle_id) # {}
      THEN prompt_or_general(APP_SCENE_MAPPING[First(BundleEntries(app.bundle_id))].scene)
      ELSE IF app.present /\ NameEntries(app.name) # {}
      THEN prompt_or_general(APP_NAME_SCENE_MAPPING[First(NameEntries(app.name))].scene)
      ELSE prompt_or_general(IF scene.type = Absent THEN "general" ELSE scene.type)

\* polish_async calls self._get_prompt(scene).
GetPrompt(scene) ==
  /\ prompted.st = "none"
  /\ prompted' = [st |-> "done", scene |-> scene, prompt |-> get_prompt(scene)]
  /\ UNCHANGED <<serverVars, registryVars, loaderVars, punctuationVars, decoderVars,
                 polished, punctuated>>

\* ------------------------------------------------------- specifications
\* What the handler of session s does with its next message or at its await.
HandlerAfterFrame(s) ==
  \/ HandleStop(s)
  \/ StopAfterVad(s)
  \/ FinalResult(s)
  \/ FinalTimeout(s)

HandlerAfterStart(s) ==
  \/ \E c \in ChunkKinds : HandleFrame(s, c, MaxChunks)
  \/ HandlerAfterFrame(s)

\* The start messages name no model.
Handler(s) ==
  \/ \E o \in StartOptions : HandleStart(s, o, None, TRUE)
  \/ HandlerAfterStart(s)

\* The VAD tasks and the worker threads in plain transcription.
BackgroundAsr ==
  \/ \E w \in WorkerIds : WorkerAcquire(w)
  \/ \E w \in WorkerIds, text \in AsrTexts \cup {Raise}, words \in BOOLEAN :
       WorkerReturn(w, text, words)
  \/ \E t \in TaskIds : VadTick(t)
  \/ \E t \in TaskIds : VadResume(t)
  \/ \E t \in TaskIds : VadCancelled(t)

\* The tasks and threads that run beside the handlers.
Background ==
  \/ BackgroundAsr
  \/ \E w \in WorkerIds, text \in AsrTexts : WorkerAlign(w, text)
  \/ \E b \in BgIds, resp \in LlmResponses : BgFinish(b, resp)

\* Two connections whose clients stay connected; no plugin is registered.
Next == (\E s \in Sessions : Handler(s)) \/ Background

Spec == Init /\ [][Next]_vars

\* The threads of the workers run. A thread blocked in the acquire of a free
\* threading.Lock is woken and one of them takes it; a model call that has
\* begun comes to its end (it returns or raises).
GateFairness ==
  /\ WF_vars(\E w \in WorkerIds : WorkerAcquire(w))
  /\ \A w \in WorkerIds :
       WF_vars(\E text \in AsrTexts \cup {Raise}, words \in BOOLEAN :
                 WorkerReturn(w, text, words))

\* The two connections of Spec, with worker threads that run.
SpecGate == Init /\ [][Next]_vars /\ GateFairness

\* One connection, with plugins registered through register_plugin.
NextPlugins ==
  \/ \E p \in PluginKinds : RegisterPlugin(p)
  \/ Handler("s1")
  \/ Background

SpecPlugins == Init /\ [][NextPlugins]_vars

\* Two connections whose start messages name models or none, without polish
\* and timestamps; the constructor of a model may fail.
NextModels ==
  \/ \E s \in Sessions, mid \in ModelIds \cup {None}, loads \in BOOLEAN :
       HandleStart(s, NoOpts, mid, loads)
  \/ \E s \in Sessions : HandlerAfterStart(s)
  \/ BackgroundAsr

SpecModels == Init /\ [][NextModels]_vars

\* One connection, which the client may close at any time.
NextDisconnect ==
  \/ Handler("s1")
  \/ Disconnect("s1")
  \/ HandlerEnd("s1")
  \/ Background

SpecDisconnect == Init /\ [][NextDisconnect]_vars

\* Two connections with polish and LLM polish enabled, one of which the client
\* may close at any time.
LlmOpts == [enable_polish |-> TRUE, use_llm_polish |-> TRUE, use_timestamps |-> FALSE,
            scene |-> NoScene]

NextPolish ==
  \/ \E s \in Sessions : HandleStart(s, LlmOpts, None, TRUE)
  \/ \E s \in Sessions : HandlerAfterStart(s)
  \/ \E s \in Sessions : Disconnect(s)
  \/ \E s \in Sessions : HandlerEnd(s)
  \/ BackgroundAsr
  \/ \E b \in BgIds, resp \in LlmResponses : BgFinish(b, resp)

SpecPolish == Init /\ [][NextPolish]_vars

\* One connection whose client names a scene with every start and asks for the
\* LLM polish; its messages may be queued when the handler comes to them.
NextScene ==
  \/ \E o \in SceneOptions : HandleStart("s1", o, None, TRUE)
  \/ HandlerAfterStart("s1")
  \/ BackgroundAsr
  \/ \E b \in BgIds : BgBegin(b)
  \/ \E b \in BgIds, resp \in LlmResponses : BgFinish(b, resp)

SpecScene == Init /\ [][NextScene]_vars

\* One connection without polish and timestamps, with a longer audio buffer.
NextBuffer ==
  \/ HandleStart("s1", NoOpts, None, TRUE)
  \/ \E c \in ChunkKinds : HandleFrame("s1", c, MaxFrames)
  \/ HandlerAfterFrame("s1")
  \/ BackgroundAsr

SpecBuffer == Init /\ [][NextBuffer]_vars

\* The PluginLoader alone: plugins are loaded, enabled, disabled and unloaded
\* while texts are processed.
NextLoader ==
  \/ \E id \in LoaderPluginIds, kind \in PluginKinds : LoadPlugin(id, kind)
  \/ \E id \in LoaderPluginIds : UnloadPlugin(id)
  \/ \E j \in 1..MaxSlots, st \in {"enabled", "disabled"} : SetState(j, st)
  \/ \E text \in AsrTexts : ProcessTextBegin(text)
  \/ ProcessTextNext
  \/ ProcessTextPluginDone

SpecLoader == Init /\ [][NextLoader]_vars

\* One connection without polish and timestamps whose VAD task may run any
\* number of transcriptions, the model returning one of three texts.
NextVad ==
  \/ HandleStart("s1", NoOpts, None, TRUE)
  \/ \E c \in ChunkKinds : HandleFrame("s1", c, MaxFrames)
  \/ HandlerAfterFrame("s1")
  \/ \E w \in WorkerIds : WorkerAcquire(w)
  \/ \E w \in WorkerIds, text \in VadTexts \cup {Raise} : WorkerReturn(w, text, FALSE)
  \/ \E w \in WorkerIds : WorkerExit(w)
  \/ \E t \in TaskIds : VadTick(t)
  \/ \E t \in TaskIds : VadResume(t)
  \/ \E t \in TaskIds : VadCancelled(t)

SpecVad == Init /\ [][NextVad]_vars

\* One connection without polish and timestamps whose binary frames are of
\* every kind.
NextFrames ==
  \/ HandleStart("s1", NoOpts, None, TRUE)
  \/ \E c \in FrameKinds : HandleFrame("s1", c, MaxFrames)
  \/ HandlerAfterFrame("s1")
  \/ BackgroundAsr

SpecFrames == Init /\ [][NextFrames]_vars

\* The binary branch of handle_client alone, on every message of up to
\* MaxMessageLen bytes.
NextDecode == \E m \in Messages : ReceiveBinary(m)

SpecDecode == Init /\ [][NextDecode]_vars

\* A ChinesePunctuationPlugin alone: it is initialized, called and cleaned up.
NextPunctuation ==
  \/ \E config \in PunctuationConfigs : Initialize(config)
  \/ Cleanup
  \/ \E text \in PunctuationTexts, manager \in {"ok", "raise"},
        outcome \in [Libraries -> LibraryOutcomes] :
       OnTranscription(text, manager, outcome)

SpecPunctuation == Init /\ [][NextPunctuation]_vars

\* ScenePolisher.polish alone, on every raw text and scene.
NextScenePolish == \E text \in RawTexts, scene \in Scenes : Polish(text, scene)

SpecScenePolish == Init /\ [][NextScenePolish]_vars

\* LLMPolisher._get_prompt alone, on every scene.
NextPrompt == \E scene \in PromptScenes : GetPrompt(scene)

SpecPrompt == Init /\ [][NextPrompt]_vars

\* TimestampAwarePunctuator.punctuate alone, on every list of up to MaxWords
\* entries: the lists the one call may be given.
WordLists == IF punctuated.st = "none" THEN SeqsUpTo(TimedWords, MaxWords) ELSE {}

NextPunctuate == \E words \in WordLists : PunctuateWords(words)

SpecPunctuate == Init /\ [][NextPunctuate]_vars

\* ================================================================ claims
Indices(s, type) == {i \in DOMAIN out[s] : out[s][i].type = type}
FinalsOf(s, u)   == {i \in Indices(s, "final") : out[s][i].utt = u}
UpdatesOf(s, u)  == {i \in Indices(s, "polish_update") : out[s][i].utt = u}
PartialsBy(seq, t) ==
  Cardinality({i \in DOMAIN seq : seq[i].type = "partial" /\ seq[i].src = t})
NumPartials(seq) == Cardinality({i \in DOMAIN seq : seq[i].type = "partial"})
Last(seq) == seq[Len(seq)]
\* The step appends exactly one message to the connection of s.
Sends(s) == Len(out'[s]) = Len(out[s]) + 1

\* C1 (as claimed): whenever a session is not in the middle of handling a stop,
\* every stop it has handled was answered with exactly one final.
C1_ExactlyOneFinalPerStop ==
  \A s \in Sessions :
    hpc[s] \in {"recv", "done"} =>
      \A u \in 1..stops[s] : Cardinality(FinalsOf(s, u)) = 1

\* C2: at most one worker is inside the model (ASR or alignment), whichever
\* path started it and whether or not its awaiter has abandoned it.
C2_AtMostOneInModel == Cardinality({w \in WorkerIds : InModel(w)}) <= 1

\* An abandoned worker is inside the model while another worker waits for the
\* gate.
C2_Witness ==
  \E w1, w2 \in WorkerIds :
    /\ InModel(w1) /\ workers[w1].abandoned
    /\ workers[w2].st = "wait"

\* C3 (as claimed): while a session is not recording (from the start of its
\* stop handling to its next start) no partial is sent on its connection.
C3_NoPartialOnceStopped ==
  [][\A s \in Sessions :
       ~recording[s] => NumPartials(out'[s]) = NumPartials(out[s])]_vars

\* C4: every polish_update follows the final of the same stop, and no stop gets
\* two polish_updates.
C4_UpdateAfterFinalAtMostOnce ==
  \A s \in Sessions :
    \A i \in Indices(s, "polish_update") :
      /\ \E j \in FinalsOf(s, out[s][i].utt) : j < i
      /\ UpdatesOf(s, out[s][i].utt) = {i}

C4_Witness == \E s \in Sessions : Indices(s, "polish_update") # {}

\* C5: model_lock is held only by a worker that is inside its model call: it is
\* free again as soon as the call has returned or raised, also when nobody
\* awaits the worker any more.
C5_GateHeldOnlyInCall ==
  /\ model_lock # 0 => InModel(model_lock)
  /\ \A w \in WorkerIds : InModel(w) => model_lock = w

\* A call has raised, a call abandoned by its awaiter has ended, and the gate
\* is free.
C5_Witness ==
  /\ model_lock = 0
  /\ \E w \in WorkerIds : workers[w].text = Raise
  /\ \E w \in WorkerIds : workers[w].st = "dropped"

\* The handler of s leaves its wait for the final transcription although the
\* worker has not ended: the timeout.
TimeoutStep(s) ==
  /\ hpc[s] = "await_asr" /\ hpc'[s] # "await_asr"
  /\ workers[asr_worker[s]].st # "done"

\* C6: a final transcription that has not ended can always time out, in the
\* model or waiting for the gate; the timeout sends one empty final (text "",
\* polish_method "none") and leaves the handler at its next message with the
\* connection open.
C6_TimeoutSendsEmptyFinal ==
  /\ [](\A s \in Sessions :
          (hpc[s] = "await_asr" /\ workers[asr_worker[s]].st # "done")
            => ENABLED FinalTimeout(s))
  /\ [][\A s \in Sessions :
          TimeoutStep(s) =>
            /\ out'[s] = Append(out[s], FinalMsg("", "", "none", stops[s], settings[s]))
            /\ hpc'[s] = "recv" /\ conn'[s] = "open"]_vars

\* After a timeout's empty final, with the worker still waiting for the gate,
\* the session has handled a later start.
C6_Witness ==
  \E s \in Sessions :
    /\ recording[s]
    /\ \E i \in Indices(s, "final") :
         out[s][i].original_text = "" /\ out[s][i].polish_method = "none"
    /\ \E w \in WorkerIds : workers[w].st = "wait" /\ workers[w].abandoned
                            /\ workers[w].kind # "vad"

\* C7: once a VAD task is cancelled, it sends no partial and its last_text and
\* last_transcribed_length do not change while it still exists; nothing awaits
\* the worker it has abandoned.
C7_CancelledResultDiscarded ==
  /\ [](\A w \in WorkerIds :
          workers[w].abandoned =>
            /\ \A t \in TaskIds : tasks[t].worker # w
            /\ \A s \in Sessions : asr_worker[s] # w)
  /\ [][\A t \in TaskIds :
          tasks[t].cancel =>
            /\ \A s \in Sessions : PartialsBy(out'[s], t) = PartialsBy(out[s], t)
            /\ tasks'[t].st \in {tasks[t].st, "cancelled"}
            /\ tasks'[t].st # "cancelled" =>
                 /\ tasks'[t].last_text = tasks[t].last_text
                 /\ tasks'[t].last_transcribed_length = tasks[t].last_transcribed_length]_vars

\* The call of a cancelled VAD task has run to its end and returned a text,
\* and no partial was sent.
C7_Witness ==
  /\ \E w \in WorkerIds :
       workers[w].st = "dropped" /\ workers[w].kind = "vad" /\ workers[w].text = "a"
  /\ \A s \in Sessions : Indices(s, "partial") = {}

\* C8: a polish_update carries a non-blank LLM answer and follows a final with
\* polish_method "rules" of a stop handled with enable_polish and
\* use_llm_polish; after a failed or blank LLM answer the final "rules" of the
\* stop is there and no polish_update of it.
LlmFailed(resp) == resp = LlmFail \/ Strip(resp) = ""

C8_UpdateOnlyOnLlmSuccess ==
  /\ \A s \in Sessions :
       \A i \in Indices(s, "polish_update") :
         /\ ~LlmFailed(out[s][i].resp)
         /\ \E j \in FinalsOf(s, out[s][i].utt) :
              /\ j < i
              /\ out[s][j].polish_method = "rules"
              /\ out[s][j].opts.enable_polish /\ out[s][j].opts.use_llm_polish
  /\ \A b \in BgIds :
       (bg[b].st = "done" /\ LlmFailed(bg[b].resp)) =>
         /\ \E j \in FinalsOf(bg[b].sess, bg[b].utt) :
              out[bg[b].sess][j].polish_method = "rules"
         /\ UpdatesOf(bg[b].sess, bg[b].utt) = {}

\* The LLM call of a stop has failed: its final "rules" was sent, no update.
C8_Witness ==
  \E b \in BgIds :
    /\ bg[b].st = "done" /\ bg[b].resp = LlmFail /\ ~IsBlank(bg[b].text)
    /\ FinalsOf(bg[b].sess, bg[b].utt) # {}

\* The stop of s comes to the empty-buffer test in this step.
ReachesStopBody(s) ==
  \/ hpc[s] = "recv" /\ stops'[s] = stops[s] + 1 /\ transcription_task[s] = 0
  \/ hpc[s] = "await_vad" /\ hpc'[s] # "await_vad"

\* C9: a stop that finds the audio buffer empty sends, in that step, the one
\* final of the stop, with text "" and polish_method "none", starts no model
\* call and is back at the next message; no stop ever has two finals.
C9_EmptyBufferFinal ==
  /\ [](\A s \in Sessions : \A u \in 1..stops[s] : Cardinality(FinalsOf(s, u)) <= 1)
  /\ [][\A s \in Sessions :
          (ReachesStopBody(s) /\ audio_chunks[s] = <<>>) =>
            /\ out'[s] = Append(out[s], FinalMsg("", Absent, "none", stops'[s], settings[s]))
            /\ workers' = workers
            /\ hpc'[s] = "recv"]_vars

\* An empty final "none" was sent for a stop handled with enable_polish set.
C9_Witness ==
  \E s \in Sessions :
    \E i \in Indices(s, "final") :
      /\ out[s][i].opts.enable_polish
      /\ out[s][i].text = "" /\ out[s][i].polish_method = "none"
      /\ out[s][i].original_text = Absent

RunningVad(s) ==
  {t \in TaskIds : tasks[t].sess = s /\ tasks[t].st \in {"sleep", "await"}
                                    /\ ~tasks[t].cancel}

\* The handler of s, whose connection is open, ends in this step: an exception
\* has reached the top-level except of handle_client.
EndsOnException(s) == hpc[s] # "done" /\ hpc'[s] = "done" /\ conn[s] = "open"

\* C11: when an exception ends the handler of a session, the handler position,
\* connection, recording flag, audio buffer, VAD task, settings and model id of
\* every other session are as before, and so are the VAD tasks of the other
\* sessions; a session that waits for its next message beside an ended one can
\* have a stop handled (as long as the bounds on messages and workers leave
\* room for one).
C11_ExceptionEndsOneHandler ==
  /\ [][\A s \in Sessions :
          EndsOnException(s) =>
            /\ \A x \in Sessions \ {s} :
                 /\ hpc'[x] = hpc[x] /\ conn'[x] = conn[x]
                 /\ recording'[x] = recording[x]
                 /\ audio_chunks'[x] = audio_chunks[x]
                 /\ transcription_task'[x] = transcription_task[x]
                 /\ settings'[x] = settings[x]
                 /\ session_model_id'[x] = session_model_id[x]
            /\ \A t \in TaskIds : tasks[t].sess # s => tasks'[t] = tasks[t]]_vars
  /\ [](\A s \in Sessions, x \in Sessions :
          (hpc[s] = "done" /\ x # s /\ hpc[x] = "recv" /\ conn[x] = "open"
             /\ msgs < MaxMsgs /\ FreeIds(workers, WorkerIds) # {})
            => ENABLED HandleStop(x))

\* The handler of one session has ended on an exception and the server has
\* closed its connection; the other session is recording into its buffer with
\* its VAD task asleep.
C11_Witness ==
  \E s \in Sessions, x \in Sessions :
    /\ x # s /\ hpc[s] = "done" /\ conn[s] = "server_closed"
    /\ hpc[x] = "recv" /\ conn[x] = "open"
    /\ recording[x] /\ audio_chunks[x] # <<>>
    /\ transcription_task[x] # 0 /\ tasks[transcription_task[x]].st = "sleep"

\* C12 (as claimed): a session never has two VAD tasks running, and a session
\* that is recording and waits for its next message has exactly one.
C12_OneVadTaskAfterStart ==
  \A s \in Sessions :
    /\ Cardinality(RunningVad(s)) <= 1
    /\ (recording[s] /\ hpc[s] = "recv") => Cardinality(RunningVad(s)) = 1

\* C13 (as claimed): a session that is not recording and is not in the middle
\* of a stop (before its first start, after a stop, after its handler has
\* ended) has no VAD task that sleeps in its loop or awaits a model call.
C13_VadOnlyWhileRecording ==
  \A s \in Sessions :
    ((~recording[s] /\ hpc[s] = "recv") \/ hpc[s] = "done") =>
      \A t \in TaskIds :
        tasks[t].sess = s => tasks[t].st \notin {"sleep", "await"}

\* The VAD task the most recent start of s created (ids are handed out in
\* order).
LastTaskOf(s) ==
  LET mine == {t \in TaskIds : tasks[t].st # "unborn" /\ tasks[t].sess = s}
  IN  CHOOSE t \in mine : \A u \in mine : u <= t

\* C14 (as claimed): the worker a stop starts for the final transcription
\* calls the model instance that the session's most recent start gave to its
\* VAD task.
C14_FinalUsesModelOfStart ==
  [][\A s \in Sessions :
       (asr_worker[s] = 0 /\ asr_worker'[s] # 0) =>
         workers'[asr_worker'[s]].model = tasks[LastTaskOf(s)].model]_vars

\* C15: a loaded identifier keeps its instance for ever; get_model and
\* load_model for it return that instance and leave the registry as it is;
\* every VAD task and every worker calls an instance the registry holds.
C15_OneInstancePerModelId ==
  /\ [][\A id \in ModelIds : models[id] # 0 => models'[id] = models[id]]_vars
  /\ [](\A id \in ModelIds :
          models[id] # 0 =>
            /\ ModelOf(models, current_model_id, id) = models[id]
            /\ get_model(models, current_model_id, id).models = models
            /\ load_model(models, current_model_id, id).models = models)
  /\ [](\A t \in TaskIds :
          tasks[t].st # "unborn" => \E id \in ModelIds : models[id] = tasks[t].model)
  /\ [](\A w \in WorkerIds :
          workers[w].st \in {"wait", "run", "align", "done"} =>
            \E id \in ModelIds : models[id] = workers[w].model)

\* Two sessions have named the second model, loaded by the start of the first
\* of them; their VAD tasks were given one and the same instance.
C15_Witness ==
  \E t1 \in TaskIds, t2 \in TaskIds :
    /\ tasks[t1].st # "unborn" /\ tasks[t2].st # "unborn"
    /\ tasks[t1].sess # tasks[t2].sess
    /\ session_model_id[tasks[t1].sess] = "m1"
    /\ session_model_id[tasks[t2].sess] = "m1"
    /\ models["m1"] # 0
    /\ tasks[t1].model = models["m1"] /\ tasks[t2].model = models["m1"]

\* The handler of s handles a start to its end in this step: it has created a
\* VAD task.
StartHandled(s) ==
  transcription_task'[s] # transcription_task[s] /\ transcription_task'[s] # 0

\* C16: a step that handles a start of a session leaves its audio buffer
\* empty; every other step leaves the buffer's content where it is and adds
\* at its end at most; a step that handles a stop leaves the buffer as it is.
C16_BufferAppendOnly ==
  [][\A s \in Sessions :
       LET a == audio_chunks[s]
           b == audio_chunks'[s]
       IN  /\ StartHandled(s) => b = <<>>
           /\ ~StartHandled(s) => (Len(b) >= Len(a) /\ SubSeq(b, 1, Len(a)) = a)
           /\ stops'[s] # stops[s] => b = a]_vars

\* A silent and then a loud frame were appended to the buffer, and the stop
\* handled since has left both in it.
C16_Witness ==
  \E s \in Sessions :
    /\ ~recording[s] /\ stops[s] > 0 /\ hpc[s] = "recv"
    /\ audio_chunks[s] = <<"sil", "loud">>

\* C17: while a session that waits for its next message is not recording, a
\* binary frame can be handled and the step that handles it changes nothing:
\* no variable of the session or of anything else, no message sent.
C17_FrameIgnoredUnlessRecording ==
  \A s \in Sessions, c \in ChunkKinds :
    (~recording[s] /\ hpc[s] = "recv" /\ conn[s] = "open") =>
      /\ ENABLED HandleFrame(s, c, MaxFrames)
      /\ ~ENABLED (HandleFrame(s, c, MaxFrames) /\ vars' # vars)

\* After a stop, with audio left in the buffer and before the next start, a
\* frame can be handled.
C17_Witness ==
  \E s \in Sessions :
    /\ ~recording[s] /\ stops[s] > 0 /\ audio_chunks[s] # <<>>
    /\ hpc[s] = "recv" /\ conn[s] = "open"
    /\ ENABLED HandleFrame(s, "loud", MaxFrames)

\* What a pipeline of plugins makes of a text: the last plugin applied to what
\* the plugins before it make of the text, which is also the outcome when the
\* last plugin raises.
RECURSIVE Pipeline(_, _)
Pipeline(ps, t) ==
  IF ps = <<>> THEN t
  ELSE LET before == Pipeline(SubSeq(ps, 1, Len(ps) - 1), t)
           r      == ApplyPlugin(ps[Len(ps)], before)
       IN  IF r = Raise THEN before ELSE r

\* C18: run_plugins gives every text what the pipeline of the registered
\* plugins, in registration order, makes of it: two plugins that append
\* different marks leave them in registration order, and a plugin that raises
\* is passed over while those after it are applied.
C18_PluginsInOrderFailuresSkipped ==
  /\ \A t \in AsrTexts : run_plugins(t) = Pipeline(plugins, t)
  /\ plugins = <<"excl", "quest">> => run_plugins("a") = "a!?"
  /\ plugins = <<"quest", "excl">> => run_plugins("a") = "a?!"
  /\ plugins = <<"boom", "quest">> => run_plugins("a") = "a?"
  /\ plugins = <<"excl", "boom">> => run_plugins("a") = "a!"

\* With a raising plugin registered before an appending one, a final was sent
\* whose text is the transcript with the mark of the second.
C18_Witness ==
  /\ plugins = <<"boom", "quest">>
  /\ \E i \in Indices("s1", "final") :
       out["s1"][i].original_text = "a" /\ out["s1"][i].text = "a?"

\* process_text goes past an entry of loaded_plugins in this step.
PassesOver ==
  processing.st = "run" /\ processing'.st = "run" /\ processing'.i # processing.i

\* process_text calls on_transcription of entry j in this step.
Invokes(j) ==
  processing.st = "run" /\ processing'.st = "in_plugin" /\ processing'.i = j

\* C19: process_text calls the on_transcription of an entry only when the
\* entry's state is ENABLED; it goes past an entry in state LOADED, DISABLED or
\* FAILED with the text and the entries as they are, and every entry it goes
\* past is in one of these states.
C19_OnlyEnabledInvoked ==
  /\ [][\A j \in 1..MaxSlots :
          Invokes(j) => (loaded_plugins[j].present /\ loaded_plugins[j].state = "enabled")]_vars
  /\ [][PassesOver =>
          /\ processing'.text = processing.text
          /\ loaded_plugins' = loaded_plugins
          /\ loaded_plugins[processing'.i - 1].state \in {"loaded", "disabled", "failed"}]_vars

\* A call has returned its text unchanged with a disabled, appending plugin
\* loaded.
C19_Witness ==
  /\ processing.st = "returned" /\ processing.text = "a"
  /\ \E j \in PresentSlots :
       loaded_plugins[j].state = "disabled" /\ loaded_plugins[j].kind = "excl"

\* The on_transcription of the entry process_text has called ends in this
\* step.
PluginEnds == processing.st = "in_plugin" /\ processing'.st # "in_plugin"

\* C20: when the on_transcription of a plugin raises, process_text goes on with
\* the text as it was and the plugin's entry, unless it was replaced or
\* unloaded meanwhile, is in state FAILED with the error recorded; the call
\* never ends raising at the end of an on_transcription; an entry in state
\* FAILED is not called.
C20_PluginFailureIsolated ==
  /\ [][PluginEnds =>
          /\ processing'.st = "run"
          /\ processing.kind = "boom" =>
               /\ processing'.text = processing.text
               /\ ~processing.stale =>
                    /\ loaded_plugins'[processing.i].state = "failed"
                    /\ loaded_plugins'[processing.i].error]_vars
  /\ [][\A j \in 1..MaxSlots : Invokes(j) => loaded_plugins[j].state # "failed"]_vars

\* A raising plugin and, after it, an appending one were enabled: the call has
\* returned the text with the mark of the second, the first is FAILED with its
\* error recorded.
C20_Witness ==
  /\ processing.st = "returned" /\ processing.text = "a!"
  /\ Len(loaded_plugins) = 2
  /\ loaded_plugins[1].kind = "boom" /\ loaded_plugins[1].state = "failed"
  /\ loaded_plugins[1].error /\ loaded_plugins[1].present
  /\ loaded_plugins[2].kind = "excl" /\ loaded_plugins[2].state = "enabled"
\* The last on_transcription call went past its early returns to the libraries.
ReachedLibraries == on_transcription.tried # <<>>
\* The primary library of the last call did not restore the punctuation: it is
\* unknown, not available, not installed, or it raised while it processed the text.
PrimaryFailed ==
  \/ on_transcription.primary \notin Libraries
  \/ on_transcription.outcome[on_transcription.primary] # "ok"

\* C21 (as claimed): when on_transcription got as far as the libraries and the
\* primary library failed, the other library was tried; the result is the
\* other library's when that one worked and the input text otherwise.
C21_FallbackWhenPrimaryFails ==
  (ReachedLibraries /\ PrimaryFailed) =>
     /\ Len(on_transcription.tried) = 2
     /\ on_transcription.result =
          LET fallback == on_transcription.tried[2]
          IN  IF on_transcription.outcome[fallback] = "ok"
              THEN AdapterRestore(fallback, on_transcription.text, "ok")
              ELSE on_transcription.text
\* The step ends a transcription run of VAD task t: do_transcribe returns to
\* the loop.
EndsRun(t) == tasks[t].st = "await" /\ tasks'[t].st = "sleep"

\* C22 (as claimed): when a transcription run of a VAD task ends, whatever it
\* returned, the new-audio guard is closed for the snapshot it ran on:
\* last_transcribed_length is at least the snapshot's length, so that
\* pause_trigger stays false until the buffer has grown beyond the snapshot.
C22_GuardClosedAfterRun ==
  [][\A t \in TaskIds :
       EndsRun(t) => tasks'[t].last_transcribed_length >= tasks[t].snap]_vars
\* The step is a tick of VAD task t that evaluated its snapshot and changed
\* the task's state.
EvaluatedTick(t) ==
  /\ tasks[t].st = "sleep" /\ tasks'[t].st \in {"sleep", "await"}
  /\ tasks'[t].cancel = tasks[t].cancel
  /\ tasks'[t] # tasks[t]
\* The step starts a transcription run of VAD task t.
StartsRun(t) == tasks[t].st = "sleep" /\ tasks'[t].st = "await"

\* C23: a tick that evaluates its snapshot starts a transcription exactly when
\* the silence counter, after the tick's update, has reached frames_needed
\* (300 ms / 100 ms = 3), the snapshot is longer than last_transcribed_length
\* and the scheduler is not transcribing already; and no other step starts one.
C23_TriggerIffPauseAndNewAudio ==
  [][\A t \in TaskIds :
       /\ EvaluatedTick(t) =>
            (StartsRun(t) <=>
               /\ tasks'[t].silence_frames >= SilenceDurationMs \div CheckIntervalMs
               /\ SampleCount(audio_chunks[tasks[t].sess]) > tasks[t].last_transcribed_length
               /\ ~tasks[t].is_transcribing)
       /\ StartsRun(t) =>
            /\ EvaluatedTick(t)
            /\ tasks'[t].snap = SampleCount(audio_chunks[tasks[t].sess])]_vars

\* A transcription was started on audio that came after the one of a partial.
C23_Witness ==
  \E t \in TaskIds :
    /\ tasks[t].st = "await"
    /\ tasks[t].last_transcribed_length > 0
    /\ tasks[t].snap > tasks[t].last_transcribed_length
\* The partials VAD task t has sent to session s, as indices of out[s].
PartialsOf(s, t) == {i \in Indices(s, "partial") : out[s][i].src = t}
\* Partials i and j of task t with no partial of t between them.
Consecutive(s, t, i, j) ==
  i < j /\ ~\E k \in PartialsOf(s, t) : i < k /\ k < j

\* C24 (as claimed): every partial carries a non-empty text, and no two partials
\* of one VAD task, which lives for one recording, carry the same text.
C24_NoPartialTextTwice ==
  \A s \in Sessions :
    /\ \A i \in Indices(s, "partial") : out[s][i].text # ""
    /\ \A t \in TaskIds : \A i, j \in PartialsOf(s, t) :
         i # j => out[s][i].text # out[s][j].text

\* C24 (amended): every partial carries a non-empty text, and no two
\* consecutive partials of one VAD task carry the same text.
C24_NoPartialTextTwiceInARow ==
  \A s \in Sessions :
    /\ \A i \in Indices(s, "partial") : out[s][i].text # ""
    /\ \A t \in TaskIds : \A i, j \in PartialsOf(s, t) :
         Consecutive(s, t, i, j) => out[s][i].text # out[s][j].text

\* A VAD task has sent two partials, and its next transcription has returned
\* the text of the second one.
C24_Witness ==
  \E s \in Sessions, t \in TaskIds :
    /\ Cardinality(PartialsOf(s, t)) = 2
    /\ tasks[t].st = "await"
    /\ workers[tasks[t].worker].st = "done"
    /\ workers[tasks[t].worker].text = tasks[t].last_text
\* VAD task t is alive before and after the step.
StaysAlive(t) ==
  tasks[t].st \in {"sleep", "await"} /\ tasks'[t].st \in {"sleep", "await"}

\* C25: the silence counter is 0 when a transcription run ends; after that
\* only ticks that evaluate a snapshot change it, by one step up when the last
\* 100 ms are silent and to 0 otherwise; and a run starts only with the counter
\* at frames_needed or more. So frames_needed silent ticks in a row, with no
\* voiced tick after them, lie between two runs of one VAD task.
C25_FullSilenceRunBetweenTriggers ==
  [][\A t \in TaskIds :
       /\ EndsRun(t) => tasks'[t].silence_frames = 0
       /\ (StaysAlive(t) /\ tasks'[t].silence_frames # tasks[t].silence_frames) =>
            EndsRun(t) \/ EvaluatedTick(t)
       /\ EvaluatedTick(t) =>
            tasks'[t].silence_frames =
              IF is_silence(audio_chunks[tasks[t].sess])
              THEN tasks[t].silence_frames + 1 ELSE 0
       /\ StartsRun(t) => tasks'[t].silence_frames >= FramesNeeded]_vars

\* After its first run, a VAD task has counted a new silence up to
\* frames_needed and started its second run.
C25_Witness ==
  \E t \in TaskIds :
    /\ msgs = 1
    /\ tasks[t].st = "await"
    /\ tasks[t].silence_frames = FramesNeeded
    /\ \E w \in WorkerIds : workers[w].st = "gone"
\* VAD task t is about to evaluate a tick.
AtTick(t) == tasks[t].st = "sleep" /\ ~tasks[t].cancel
\* The buffer VAD task t reads.
BufferOf(t) == audio_chunks[tasks[t].sess]
\* The mean of the squares of the last 1600 samples of a buffer that holds
\* 1600 samples or more is below the square of the threshold 0.01.
SilentTail(chunks) ==
  RecentEnergy(chunks, 4 * 1600) < 10 * 10 * 1600

AttemptFails(t) ==
  /\ tasks[t].st = "await"
  /\ workers[tasks[t].worker].st = "done"
  /\ LET text == workers[tasks[t].worker].text
     IN  \/ text = Raise
         \/ /\ text # "" /\ text # tasks[t].last_text
            /\ conn[tasks[t].sess] # "open"

\* C27: when the model call or the send of the partial raises inside a VAD
\* task, the task goes on: it is back at its sleep with is_transcribing
\* cleared, so that a later tick can trigger again; no message is sent; and the
\* handler, the connection, the buffer and the gate are as they were, so that
\* the stop is handled as it would have been without the attempt.
C27_VadFailureSwallowed ==
  /\ [][\A t \in TaskIds :
          (AttemptFails(t) /\ ~tasks[t].cancel /\ tasks'[t].st # "await") =>
            /\ tasks'[t].st = "sleep"
            /\ ~tasks'[t].is_transcribing
            /\ ~tasks'[t].cancel
            /\ out' = out
            /\ UNCHANGED <<hpc, recording, settings, audio_chunks, transcription_task,
                           asr_worker, conn, model_lock, stops, msgs>>]_vars
  /\ [](\A t \in TaskIds : tasks[t].st = "sleep" => ~tasks[t].is_transcribing)

\* A VAD task awaits a model call that has raised, on an open connection.
C27_Witness ==
  \E t \in TaskIds :
    /\ AttemptFails(t)
    /\ ~tasks[t].cancel
    /\ workers[tasks[t].worker].text = Raise
    /\ conn[tasks[t].sess] = "open"
\* C28 (as claimed): no binary frame received while recording makes the
\* handler raise or closes the connection, neither when it is received nor
\* when the stop decodes the buffer (the handler ends nowhere but in the final
\* transcription), and no VAD task is ended by an exception.
C28_FramesNeverBreakSession ==
  /\ [][\A s \in Sessions :
          hpc[s] \in {"recv", "await_vad"} =>
            hpc'[s] # "done" /\ conn'[s] = "open"]_vars
  /\ [](\A t \in TaskIds : tasks[t].st # "failed")
\* A binary message of more than one byte has been received while recording.
FrameReceived == decoded.outcome # "none" /\ Len(message) > 1

\* C29 (as claimed): every frame of more than one byte is appended: after
\* first byte 0x01 the bytes that follow it, unchanged; after first byte 0x02
\* four bytes for every two that follow it, the float32 of that int16 over
\* 32767; after any other first byte the whole message, first byte included.
C29_DecodedByTag ==
  FrameReceived =>
    /\ decoded.outcome = "appended"
    /\ message[1] = 1 => decoded.bytes = Tail(message)
    /\ message[1] = 2 =>
         /\ Len(decoded.bytes) * 2 = (Len(message) - 1) * 4
         /\ \A i \in 1..(Len(decoded.bytes) \div 4) :
              SubSeq(decoded.bytes, 4 * i - 3, 4 * i) =
                Float32Bytes(Int16(message[2 * i], message[2 * i + 1]))
    /\ message[1] \notin {1, 2} => decoded.bytes = message
\* A transcription of session s is waiting for model_lock or is inside the
\* model: the final one of its stop, or one that its VAD task started.
Transcribing(s) ==
  \/ /\ asr_worker[s] # 0
     /\ workers[asr_worker[s]].st \in {"wait", "run", "align"}
  \/ \E t \in TaskIds :
       /\ tasks[t].sess = s /\ tasks[t].st = "await"
       /\ workers[tasks[t].worker].st \in {"wait", "run", "align"}

\* The handler of session x waits for its next message on an open connection.
Receiving(x) == hpc[x] = "recv" /\ conn[x] = "open"

\* C30: while a transcription of one session waits for model_lock or is inside
\* the model, however long, every other session that waits for a message can
\* have a start and a stop handled and a binary frame taken, which is appended
\* to its buffer when it is recording, and every sleeping VAD task of another
\* session can have its tick evaluated (as long as the bounds on messages,
\* tasks, workers, buffered frames and counted silence leave room for the step).
C30_OtherSessionsGoOn ==
  [](\A s \in Sessions, x \in Sessions :
       (x # s /\ Transcribing(s)) =>
         /\ (Receiving(x) /\ msgs < MaxMsgs /\ FreeIds(tasks, TaskIds) # {})
              => ENABLED HandleStart(x, NoOpts, None, TRUE)
         /\ (Receiving(x) /\ msgs < MaxMsgs /\ FreeIds(workers, WorkerIds) # {})
              => ENABLED HandleStop(x)
         /\ (Receiving(x) /\ ~recording[x])
              => ENABLED HandleFrame(x, "loud", MaxChunks)
         /\ (Receiving(x) /\ recording[x] /\ Len(audio_chunks[x]) < MaxChunks)
              => ENABLED (/\ HandleFrame(x, "loud", MaxChunks)
                          /\ audio_chunks'[x] = Append(audio_chunks[x], "loud"))
         /\ \A t \in TaskIds :
              (/\ tasks[t].sess = x /\ tasks[t].st = "sleep" /\ ~tasks[t].cancel
               /\ tasks[t].silence_frames < MaxSilence
               /\ FreeIds(workers, WorkerIds) # {})
                => ENABLED VadTick(t))

\* The final transcription of one session is inside the model, holding
\* model_lock, while another session is recording with a frame in its buffer,
\* its handler waiting for the next message, and the transcription that a tick
\* of its VAD task started waits for model_lock.
C30_Witness ==
  \E s \in Sessions, x \in Sessions, t \in TaskIds :
    /\ x # s
    /\ asr_worker[s] # 0 /\ workers[asr_worker[s]].st = "run"
    /\ model_lock = asr_worker[s]
    /\ Receiving(x) /\ recording[x] /\ audio_chunks[x] # <<>>
    /\ tasks[t].sess = x /\ tasks[t].st = "await"
    /\ workers[tasks[t].worker].st = "wait"

\* Session s has a message written to its connection in this step.
Written(s) == Len(out'[s]) = Len(out[s]) + 1

\* The message written to the connection of s in this step.
LastWritten(s) == out'[s][Len(out'[s])]

\* C31: a message written to the connection of a session that is recording is
\* a partial of a VAD task of that session or a final of its handler, never
\* the message of another task.
C31_OnlyVadAndHandlerWriteWhileRecording ==
  [][\A s \in Sessions :
       (recording[s] /\ Written(s)) =>
         \/ LastWritten(s).type = "final"
         \/ /\ LastWritten(s).type = "partial"
            /\ tasks[LastWritten(s).src].sess = s]_vars

\* The session fields and the audio buffer of session s.
SessionFields(s) ==
  <<recording[s], settings[s], session_model_id[s], audio_chunks[s]>>

\* A step of the handler of s that takes a message: a text message, which is
\* counted, or a binary frame, which touches no task, thread or connection
\* output.
TakesMessage(s) ==
  /\ hpc[s] = "recv" /\ conn[s] = "open"
  /\ \/ msgs' = msgs + 1
     \/ /\ msgs' = msgs
        /\ UNCHANGED <<tasks, workers, bg, out, model_lock>>

\* C32: the recording flag, the settings, the model id and the audio buffer of
\* a session change only in a step in which its handler, waiting for the next
\* message, takes one; the handler takes no message while it is inside the
\* handling of an earlier one; and a step of a VAD task, which takes its
\* snapshot of the buffer, of a worker thread or of a background polish task
\* leaves the fields and buffers of every session as they are.
C32_OnlyHandlerMutatesSession ==
  /\ [][\A s \in Sessions :
          SessionFields(s)' # SessionFields(s) => TakesMessage(s)]_vars
  /\ [][\A s \in Sessions :
          (stops'[s] # stops[s] \/ transcription_task'[s] \notin {0, transcription_task[s]})
            => hpc[s] = "recv"]_vars
  /\ [][(msgs' = msgs /\ (tasks' # tasks \/ workers' # workers \/ bg' # bg))
          => \A s \in Sessions : SessionFields(s)' = SessionFields(s)]_vars

\* A VAD task has taken a snapshot of a recording session's buffer and awaits
\* its transcription, and the buffer still holds the frame.
C32_Witness ==
  \E t \in TaskIds :
    /\ tasks[t].st = "await" /\ tasks[t].snap > 0
    /\ recording[tasks[t].sess]
    /\ SampleCount(audio_chunks[tasks[t].sess]) = tasks[t].snap

\* Background task b ends in this step with a send on a connection that is
\* gone: the LLM has answered with a text, and websocket.send raises.
SendFailsInBackground(b) ==
  /\ bg[b].st = "run" /\ bg'[b].st # "run"
  /\ bg'[b].resp = "L" /\ ~IsBlank(bg[b].text)
  /\ conn[bg[b].sess] # "open"

\* C33: closing a connection, by the client or by the server, and the end of
\* its handler leave every background polish task as it is; a running
\* background task can always take its last step; and when its send finds the
\* connection gone the task ends as done, nothing is written, and the
\* handlers, connections, buffers, VAD tasks, workers and the other background
\* tasks stay as they are.
C33_BackgroundPolishOutlivesConnection ==
  /\ [][(conn' # conn \/ \E s \in Sessions : hpc[s] # "done" /\ hpc'[s] = "done")
          => bg' = bg]_vars
  /\ [](\A b \in BgIds : bg[b].st = "run" =>
          \A resp \in LlmResponses : ENABLED BgFinish(b, resp))
  /\ [][\A b \in BgIds :
          SendFailsInBackground(b) =>
            /\ bg'[b].st = "done"
            /\ \A x \in BgIds \ {b} : bg'[x] = bg[x]
            /\ UNCHANGED <<out, hpc, conn, recording, settings, audio_chunks,
                           transcription_task, asr_worker, tasks, workers,
                           model_lock>>]_vars

\* The client of one session has gone and the handler has ended; the background
\* task of that session took its last step afterwards, with the LLM's text,
\* and no polish_update was written; the other session is recording.
C33_Witness ==
  \E b \in BgIds, x \in Sessions :
    /\ bg[b].st = "done" /\ bg[b].resp = "L" /\ ~IsBlank(bg[b].text)
    /\ conn[bg[b].sess] = "client_closed" /\ hpc[bg[b].sess] = "done"
    /\ \A i \in 1..Len(out[bg[b].sess]) : out[bg[b].sess][i].type # "polish_update"
    /\ x # bg[b].sess /\ recording[x] /\ hpc[x] = "recv"

\* C34: ScenePolisher.polish does not raise, whatever the text and the scene.
C34_QuickPolishNeverRaises ==
  polished.st = "done" => polished.result # Raise

\* The scene type the active application stands for: by its bundle identifier,
\* else by the first pattern its lowered name contains; Absent without either.
HintedType(scene) ==
  LET app == scene.active_app
  IN  IF ~app.present THEN Absent
      ELSE IF \E k \in DOMAIN APP_SCENE_MAPPING :
                APP_SCENE_MAPPING[k].bundle_id = app.bundle_id
      THEN APP_SCENE_MAPPING[CHOOSE k \in DOMAIN APP_SCENE_MAPPING :
                               APP_SCENE_MAPPING[k].bundle_id = app.bundle_id].scene
      ELSE LET hits == {k \in DOMAIN APP_NAME_SCENE_MAPPING :
                          Contains(APP_NAME_SCENE_MAPPING[k].pattern, lower(app.name))}
           IN  IF hits = {} THEN Absent
               ELSE APP_NAME_SCENE_MAPPING[CHOOSE k \in hits : \A j \in hits : k <= j].scene

\* A scene in Visual Studio Code whose own type is "medical".
MedicalInVSCode(custom_prompt) ==
  [custom_prompt |-> custom_prompt, type |-> "medical",
   active_app |-> [present |-> TRUE, bundle_id |-> "com.microsoft.VSCode",
                   name |-> <<"S", "a", "f", "a", "r", "i">>]]

\* C35: a custom prompt that is not empty is the prompt; without one the prompt
\* is the default prompt of the scene type, which is the type the active
\* application stands for (bundle identifier, else name) and the scene's own
\* type without such a hint; a type without default prompt, or no type, gives
\* the general default. In Visual Studio Code a scene of type "medical" gets
\* its custom prompt, and without one the default prompt for coding.
C35_PromptPrecedence ==
  prompted.st = "done" =>
    LET scene  == prompted.scene
        custom == scene.custom_prompt \notin {Absent, ""}
        type   == IF HintedType(scene) # Absent THEN HintedType(scene) ELSE scene.type
    IN  /\ custom => prompted.prompt = scene.custom_prompt
        /\ (~custom /\ type \in PromptTypes) => prompted.prompt = default_prompt(type)
        /\ (~custom /\ type \notin PromptTypes) => prompted.prompt = default_prompt("general")
        /\ scene = MedicalInVSCode("P") => prompted.prompt = "P"
        /\ scene = MedicalInVSCode(Absent) => prompted.prompt = "<default coding>"

\* _get_prompt was given a custom prompt together with an active application
\* that stands for a scene type, and has returned the custom prompt.
C35_Witness ==
  /\ prompted.st = "done"
  /\ prompted.scene.custom_prompt = "P"
  /\ HintedType(prompted.scene) = "coding"
  /\ prompted.scene.type = "medical"
  /\ prompted.prompt = "P"

\* The words of a list: its entries that have a word, in order.
RealWords(words) == SelectSeq(words, LAMBDA e : e.word # <<>>)

\* The markers by kind, for a Chinese word and for another one.
SentenceBreaks == {<<12290, 10>>, <<46, 32>>}
Commas         == {<<65292>>, <<44, 32>>}
MinorBreaks    == {<<12289>>, <<32>>}

\* What stands between two consecutive words for the gap between them, by the
\* first rule that matches.
RightlyJoined(between, word, next_word, gap) ==
  IF gap > LONG_PAUSE_THRESHOLD THEN between \in SentenceBreaks
  ELSE IF gap > MID_PAUSE_THRESHOLD THEN between \in Commas
  ELSE IF gap > SHORT_PAUSE_THRESHOLD THEN between \in MinorBreaks
  ELSE IF ~is_chinese(word) /\ ~is_chinese(next_word) THEN between = <<32>>
  ELSE between = <<>>

\* The result of punctuate without the mark appended at its end begins, for
\* the words from word k on, with word k and what rightly joins it to the next
\* word.
RECURSIVE JoinedFrom(_, _, _)
JoinedFrom(text, R, k) ==
  IF k > Len(R) THEN TRUE
  ELSE LET w == R[k].word
       IN  /\ Len(text) >= Len(w) /\ SubSeq(text, 1, Len(w)) = w
           /\ IF k = Len(R) THEN Len(text) = Len(w)
              ELSE \E n \in 0..2 :
                     /\ Len(text) >= Len(w) + n
                     /\ RightlyJoined(SubSeq(text, Len(w) + 1, Len(w) + n), w,
                                      R[k + 1].word, R[k + 1].start - R[k].end)
                     /\ JoinedFrom(SubSeq(text, Len(w) + n + 1, Len(text)), R, k + 1)

\* C36: in the text punctuate builds, every word is followed by the marker that
\* the gap to the next word asks for by the first matching rule (over 1.5 s a
\* sentence break, over 0.8 s a comma, over 0.3 s a minor break, otherwise
\* nothing, or one space between two words without Chinese characters), and
\* the last word by nothing.
C36_MarkerByGapToNextWord ==
  punctuated.st = "done" =>
    JoinedFrom(join(punctuated.parts), RealWords(punctuated.words), 1)

\* The worker of a final transcription is in its call: it waits for the gate or
\* is in the model.
InFinalCall(w) ==
  workers[w].kind \in {"final", "final_ts"} /\ workers[w].st \in {"wait", "run", "align"}

\* The handler of s starts the worker of a final transcription in this step.
FinalStarted(s) == asr_worker'[s] # asr_worker[s] /\ asr_worker'[s] # 0

\* C37: the audio a final transcription is given is the buffer of the session
\* as the stop finds it, every chunk once and in the order of arrival, and it
\* stays what it is while the call runs; a frame handled while recording is
\* put at the end of the buffer, and while the session is not recording the
\* buffer changes with the next start only, so that the buffer at a stop is
\* the frames handled while recording since the most recent start.
C37_FinalAudioIsFramesSinceStart ==
  /\ [](\A s \in Sessions, c \in ChunkKinds :
          (recording[s] /\ hpc[s] = "recv" /\ conn[s] = "open"
             /\ Len(audio_chunks[s]) < MaxFrames) =>
            /\ ENABLED HandleFrame(s, c, MaxFrames)
            /\ ~ENABLED (HandleFrame(s, c, MaxFrames)
                           /\ audio_chunks'[s] # audio_chunks[s] \o <<c>>))
  /\ [][\A s \in Sessions :
          /\ FinalStarted(s) =>
               /\ ~recording[s]
               /\ audio_chunks'[s] = audio_chunks[s]
               /\ workers'[asr_worker'[s]].audio = audio_chunks[s]
          /\ (~recording[s] /\ ~StartHandled(s)) => audio_chunks'[s] = audio_chunks[s]]_vars
  /\ [][\A w \in WorkerIds :
          (InFinalCall(w) /\ workers'[w].st \in {"wait", "run", "align"}) =>
            workers'[w].audio = workers[w].audio]_vars

\* A silent and then a loud frame were handled since the start, and the final
\* transcription of the session's second stop is in the model with the two:
\* its handler waits for it.
C37_Witness ==
  \E s \in Sessions :
    /\ hpc[s] = "await_asr" /\ asr_worker[s] # 0
    /\ workers[asr_worker[s]].st = "run"
    /\ workers[asr_worker[s]].audio = <<"sil", "loud">>
    /\ stops[s] = 2

\* The finals of the utterance of background task b.
FinalsOfTask(b) ==
  {i \in 1..Len(out[bg[b].sess]) :
     /\ out[bg[b].sess][i].type = "final"
     /\ out[bg[b].sess][i].utt = bg[b].utt}

\* C38: a background polish task that has made its call to the LLM polisher
\* has made it with the raw text and with the scene of its own utterance, the
\* ones the final of that utterance was made with.
C38_PolishOfTheSameUtterance ==
  \A b \in BgIds :
    (bg[b].st \in {"run", "done"} /\ bg[b].scene # Unread) =>
      \A i \in FinalsOfTask(b) :
        /\ bg[b].text = out[bg[b].sess][i].original_text
        /\ bg[b].scene = out[bg[b].sess][i].opts.scene

\* The workers that have asked for the gate and wait for it.
Waiting == {w \in WorkerIds : workers[w].st = "wait"}

\* C39: a worker that holds the gate is in a model call and does not wait for
\* the gate; the step from the ASR call to the alignment is made with the gate
\* held and without asking for it; a held gate is free again with the step in
\* which its holder's call ends; and, the model calls coming to their end,
\* whenever workers wait for the gate one of them gets it.
C39_GateCannotDeadlock ==
  /\ [](\A w \in WorkerIds : model_lock = w => (InModel(w) /\ w \notin Waiting))
  /\ [](\A w \in WorkerIds : InModel(w) => model_lock = w)
  /\ [][\A w \in WorkerIds :
          /\ (workers[w].st = "run" /\ workers'[w].st = "align") =>
               (model_lock = w /\ model_lock' = w)
          /\ (model_lock # w /\ model_lock' = w) => (model_lock = 0 /\ w \in Waiting)
          /\ (model_lock = w /\ ~InModel(w)') => model_lock' = 0]_vars
  /\ \A W \in SUBSET WorkerIds \ {{}} : (Waiting = W) ~> (model_lock \in W)

\* A final transcription with timestamps is in its alignment and holds the
\* gate while the worker of another session waits for it.
C39_Witness ==
  \E w \in WorkerIds, x \in WorkerIds :
    /\ workers[w].st = "align" /\ workers[w].kind = "final_ts" /\ model_lock = w
    /\ x \in Waiting

====
